---------------------------- MODULE Spec2Model ----------------------------
(***************************************************************************)
(* Model of the two steady-state heat solvers of the repository:           *)
(*                                                                         *)
(*   YantraThermalSimulator   src/simulation/sivaa_hotspot_thermal.py      *)
(*   ThermalSimulator         src/Y769_Emp/Emp_2_Advanced_Thermal_Sim.py   *)
(*                                                                         *)
(* Numbers.  The programs compute in binary floating point.  The model     *)
(* computes in fixed point: a temperature is an integer number of          *)
(* millikelvin, a power density an integer number of 1/40 W/mm^2 (every    *)
(* density of the two programs is a multiple of 0.025 W/mm^2), a thermal   *)
(* conductivity an integer number of W/(m K).  Every division rounds       *)
(* toward minus infinity, as a rounded arithmetic does somewhere; sums and *)
(* products of integers are exact.  A tolerance of 1 mK stands for any     *)
(* tolerance below the resolution (the default 1e-6 K): the check          *)
(* error < tolerance then succeeds exactly when no cell changed.           *)
(***************************************************************************)
EXTENDS Integers, Sequences, FiniteSets, TLC

(***************************************************************************)
(* Bounds of the model.                                                    *)
(***************************************************************************)
MinGrid == 2
MaxGrid == 5
MaxIter == 3
MaxEmpIter == 2
\* the concurrent specification: its grid size and its largest iteration cap
ParGrid == 5
ParMaxIter == 1
\* the largest grid of the specification of the map generators
MapMaxGrid == 16
\* the largest radius, in thousandths, _get_yantra_power is called with
MaxProbeRadius == 1200
\* run_comparison: its grid sizes, and the iteration cap of its two solves
\* (the program's is the default max_iter = 5000)
CmpMinGrid == 10
CmpMaxGrid == 16
CmpMaxIter == 2
\* the solves with one hot layer: their grid sizes and their iteration cap
RayMinGrid == 3
RayMaxGrid == 16
RayMaxIter == 400
\* the largest magnitude, in mK, of a finite value of the model's arithmetic
FloatMax == 1000000000

GridSizes == MinGrid..MaxGrid
IterCaps == 0..MaxIter
\* tolerance, in mK: none (no check can succeed), below resolution, coarse
Tolerances == {0, 1, 20}
\* ambient_temp, in mK
AmbientTemps == {273000, 300000}
\* die_size_mm
DieSizes == {20}
\* die_size_mm of a ThermalSimulator: the default, and one with dx = 1 m at
\* grid size 5, for which the explicit update does not diverge
EmpDieSizes == {20, 5000}
Layouts == {"yantra", "rectangular"}

(***************************************************************************)
(* Program constants.                                                      *)
(***************************************************************************)
SILICON == 148
COPPER == 401
AMBIENT_TEMP == 300000          \* 300.0 K
CHECK_EVERY == 100              \* iteration % 100 == 0
EMP_TOLERANCE == 100            \* max_change < 0.1

VARIABLES
    program,        \* which of the two scripts this behaviour runs
    grid_size,      \* self.grid_size
    die_size_mm,    \* the constructor's die_size_mm
    ambient_temp,   \* self.ambient_temp
    self_T,         \* self.T
    self_power,     \* self.power
    self_k_map,     \* self.k_map
    frame,          \* the activation record of each solve_steady_state call
    emp,            \* the activation record of solve_heat_equation
    cmp,            \* the activation record of run_comparison
    probe           \* a direct call of one of the map helpers

vars == <<program, grid_size, die_size_mm, ambient_temp,
          self_T, self_power, self_k_map, frame, emp, cmp, probe>>

sim_config == <<program, grid_size, die_size_mm, ambient_temp>>

(***************************************************************************)
(* Arrays.  An N x N array is a function on Cells(N).                      *)
(***************************************************************************)
Cells(N) == (0..(N - 1)) \X (0..(N - 1))

Interior(N) == {c \in Cells(N) : /\ 1 <= c[1] /\ c[1] <= N - 2
                                 /\ 1 <= c[2] /\ c[2] <= N - 2}

Boundary(N) == Cells(N) \ Interior(N)

Full(N, v) == [c \in Cells(N) |-> v]

Abs(x) == IF x < 0 THEN -x ELSE x

SetMax(S) == CHOOSE x \in S : \A y \in S : y <= x

\* np.max(np.abs(A - B))
MaxAbsDiff(A, B) == SetMax({Abs(A[c] - B[c]) : c \in DOMAIN A})

NoField == <<>>

\* maps a caller can write down: one hot cell, copper on the odd rows
HotCentre(N, p) ==
    [c \in Cells(N) |-> IF c = <<N \div 2, N \div 2>> THEN p ELSE 0]

Striped(N) ==
    [c \in Cells(N) |-> IF c[1] % 2 = 1 THEN COPPER ELSE SILICON]

(***************************************************************************)
(* SriYantraGeometry: the layer table, in declaration order.  Radii are in *)
(* thousandths of the half die, densities in 1/40 W/mm^2.                  *)
(***************************************************************************)
LAYER_RADII == <<165, 265, 398, 463, 603, 668, 769, 887, 1000>>
POWER_DENSITY == <<48, 32, 20, 12, 24, 16, 12, 4, 2>>

\* r <= radius, for the cell (i, j) of _create_power_map: r is
\* sqrt(dx**2 + dy**2) with dx = (i - center) / center, dy = (j - center) / center
RadiusLeq(i, j, N, radius) ==
    LET center == N \div 2
    IN  ((i - center) * (i - center) + (j - center) * (j - center)) * 1000000
            <= radius * radius * center * center

\* _get_yantra_power: the chain of r <= radii[...] tests, else 'boundary'
YantraPower(i, j, N) ==
    LET hit == {n \in 1..8 : RadiusLeq(i, j, N, LAYER_RADII[n])}
    IN  IF hit = {} THEN POWER_DENSITY[9]
        ELSE POWER_DENSITY[CHOOSE n \in hit : \A m \in hit : n <= m]

\* the chain with < for <=
GetYantraPower_Strict(r) ==
    IF r < LAYER_RADII[1] THEN POWER_DENSITY[1]
    ELSE IF r < LAYER_RADII[2] THEN POWER_DENSITY[2]
    ELSE IF r < LAYER_RADII[3] THEN POWER_DENSITY[3]
    ELSE IF r < LAYER_RADII[4] THEN POWER_DENSITY[4]
    ELSE IF r < LAYER_RADII[5] THEN POWER_DENSITY[5]
    ELSE IF r < LAYER_RADII[6] THEN POWER_DENSITY[6]
    ELSE IF r < LAYER_RADII[7] THEN POWER_DENSITY[7]
    ELSE IF r < LAYER_RADII[8] THEN POWER_DENSITY[8]
    ELSE POWER_DENSITY[9]

\* _get_yantra_power(r), r in thousandths: the if / elif chain as written
GetYantraPower(r) ==
    IF r <= LAYER_RADII[1] THEN POWER_DENSITY[1]
    ELSE IF r <= LAYER_RADII[2] THEN POWER_DENSITY[2]
    ELSE IF r <= LAYER_RADII[3] THEN POWER_DENSITY[3]
    ELSE IF r <= LAYER_RADII[4] THEN POWER_DENSITY[4]
    ELSE IF r <= LAYER_RADII[5] THEN POWER_DENSITY[5]
    ELSE IF r <= LAYER_RADII[6] THEN POWER_DENSITY[6]
    ELSE IF r <= LAYER_RADII[7] THEN POWER_DENSITY[7]
    ELSE IF r <= LAYER_RADII[8] THEN POWER_DENSITY[8]
    ELSE POWER_DENSITY[9]

\* _get_rectangular_power
RectangularPower(i, j, N) ==
    LET cx == N \div 2
        cy == N \div 2
        core_size == N \div 4
        cores == {<<cx - core_size, cy - core_size>>,
                  <<cx - core_size, cy + core_size \div 2>>,
                  <<cx + core_size \div 2, cy - core_size>>,
                  <<cx + core_size \div 2, cy + core_size \div 2>>}
    IN  IF \E c \in cores : /\ Abs(i - c[1]) < core_size \div 2
                            /\ Abs(j - c[2]) < core_size \div 2
        THEN 48
        ELSE IF /\ cx - N \div 3 < i /\ i < cx + N \div 3
                /\ cy - N \div 3 < j /\ j < cy + N \div 3
        THEN 20
        ELSE 8

\* _create_power_map
CreatePowerMap(layout_type, N) ==
    [c \in Cells(N) |-> IF layout_type = "yantra"
                        THEN YantraPower(c[1], c[2], N)
                        ELSE RectangularPower(c[1], c[2], N)]

(***************************************************************************)
(* _create_thermal_conductivity_map.  cos and sin of the spoke angles are  *)
(* tabulated in millionths; int() truncates, and every coordinate it is    *)
(* applied to here is non-negative.  Two doubles are not the real values   *)
(* and decide a truncation: sin(radians(330)) is -0.5000000000000004,      *)
(* tabulated as -500001, and cos(radians(270)) is -1.837e-16, tabulated as *)
(* 0 and handled by RoundsBelow.  With these the spoke points are those of *)
(* the doubles for every grid size up to 300.                              *)
(***************************************************************************)
PrimaryAngles == {45 * n : n \in 0..7}          \* range(0, 360, 45)
SecondaryAngles == {22 * n : n \in 0..16}       \* range(0, 360, 22)

CosMicro(angle) ==
    CASE angle = 0 -> 1000000    [] angle = 45 -> 707107
      [] angle = 90 -> 0         [] angle = 135 -> -707107
      [] angle = 180 -> -1000000 [] angle = 225 -> -707107
      [] angle = 270 -> 0        [] angle = 315 -> 707107
      [] angle = 22 -> 927184    [] angle = 44 -> 719340
      [] angle = 66 -> 406737    [] angle = 88 -> 34899
      [] angle = 110 -> -342020  [] angle = 132 -> -669131
      [] angle = 154 -> -898794  [] angle = 176 -> -997564
      [] angle = 198 -> -951057  [] angle = 220 -> -766044
      [] angle = 242 -> -469472  [] angle = 264 -> -104528
      [] angle = 286 -> 275637   [] angle = 308 -> 615661
      [] angle = 330 -> 866025   [] angle = 352 -> 990268

SinMicro(angle) ==
    CASE angle = 0 -> 0          [] angle = 45 -> 707107
      [] angle = 90 -> 1000000   [] angle = 135 -> 707107
      [] angle = 180 -> 0        [] angle = 225 -> -707107
      [] angle = 270 -> -1000000 [] angle = 315 -> -707107
      [] angle = 22 -> 374607    [] angle = 44 -> 694658
      [] angle = 66 -> 913545    [] angle = 88 -> 999391
      [] angle = 110 -> 939693   [] angle = 132 -> 743145
      [] angle = 154 -> 438371   [] angle = 176 -> 69756
      [] angle = 198 -> -309017  [] angle = 220 -> -642788
      [] angle = 242 -> -882948  [] angle = 264 -> -994522
      [] angle = 286 -> -961262  [] angle = 308 -> -788011
      [] angle = 330 -> -500001  [] angle = 352 -> -139173

\* the largest power of two that is at most c, from p on
RECURSIVE Pow2Below(_, _)
Pow2Below(c, p) == IF 2 * p <= c THEN Pow2Below(c, 2 * p) ELSE p

\* center + r * cos(radians(270)) rounds to a double below center: the
\* product r * 1.837e-16 exceeds half the spacing of the doubles below
\* center, which is p * 2^-53 (p * 2^-54 when center is the power of two p)
RoundsBelow(center, r) ==
    LET p == Pow2Below(center, 1)
    IN  IF center > p THEN r * 165461 > 100000 * p
        ELSE 2 * r * 165461 > 100000 * p

\* (x, y) = (int(center + r cos(angle)), int(center + r sin(angle)))
SpokePoint(N, angle, r) ==
    LET center == N \div 2
    IN  <<IF angle = 270 /\ center >= 1 /\ RoundsBelow(center, r)
          THEN center - 1
          ELSE (center * 1000000 + r * CosMicro(angle)) \div 1000000,
          (center * 1000000 + r * SinMicro(angle)) \div 1000000>>

InGrid(N, x, y) == 0 <= x /\ x < N /\ 0 <= y /\ y < N

\* the cells the primary channels mark: a 3 x 3 block around each spoke point
PrimaryCells(N) ==
    {c \in Cells(N) :
        \E angle \in PrimaryAngles :
        \E r \in (N \div 10)..(N \div 2 - 5 - 1) :
            LET p == SpokePoint(N, angle, r)
            IN  /\ InGrid(N, p[1], p[2])
                /\ \E dx \in -1..1 : \E dy \in -1..1 :
                       c = <<p[1] + dx, p[2] + dy>>}

\* the cells the secondary channels mark: the spoke points themselves
SecondaryCells(N) ==
    {c \in Cells(N) :
        \E angle \in SecondaryAngles :
        \E r \in (N \div 3)..(N \div 2 - 2 - 1) :
            c = SpokePoint(N, angle, r)}

\* every index pair (x + dx, y + dy) the primary loops form, before the test
\* 0 <= x+dx < N and 0 <= y+dy < N
PrimaryTargets(N) ==
    {<<SpokePoint(N, angle, r)[1] + dx, SpokePoint(N, angle, r)[2] + dy>> :
        angle \in PrimaryAngles, r \in (N \div 10)..(N \div 2 - 5 - 1),
        dx \in -1..1, dy \in -1..1}

\* every index pair (x, y) the secondary loops form, before the test
SecondaryTargets(N) ==
    {SpokePoint(N, angle, r) :
        angle \in SecondaryAngles, r \in (N \div 3)..(N \div 2 - 2 - 1)}

\* the channels one cell wide: k_map[i:i+1, :] and k_map[:, i:i+1]
GridChannelCells_OneWide(N) ==
    {c \in Cells(N) :
        \E n \in 0..(N - 1) :
            /\ n % (N \div 5) = 0
            /\ \/ c[1] = n
               \/ c[2] = n}

\* the rows and columns range(0, N, N // 5) names, each with its successor
GridChannelCells(N) ==
    {c \in Cells(N) :
        \E n \in 0..(N - 1) :
            /\ n % (N \div 5) = 0
            /\ \/ c[1] \in {n, n + 1}
               \/ c[2] \in {n, n + 1}}

\* the map that starts from np.zeros instead of np.ones * SILICON
CreateKMap_Zeros(layout_type, N) ==
    LET copper == IF layout_type = "yantra"
                  THEN PrimaryCells(N) \cup SecondaryCells(N)
                  ELSE GridChannelCells(N)
    IN  [c \in Cells(N) |-> IF c \in copper THEN COPPER ELSE 0]

\* range(0, N, N // 5) raises ValueError when its step is zero
KMapRaises(layout_type, N) == layout_type # "yantra" /\ N \div 5 = 0

CreateKMap(layout_type, N) ==
    LET copper == IF layout_type = "yantra"
                  THEN PrimaryCells(N) \cup SecondaryCells(N)
                  ELSE GridChannelCells(N)
    IN  [c \in Cells(N) |-> IF c \in copper THEN COPPER ELSE SILICON]
(***************************************************************************)
(* The cell update of solve_steady_state.                                  *)
(***************************************************************************)
\* the source term without its factor q
SourceTerm_NoPower(p, k, die, N) == (25 * die * die) \div (N * N * k)

\* (q * self.dx**2) / k_eff in mK, with q = power * 1e6 and
\* self.dx = die_size_mm * 1e-3 / grid_size
SourceTerm(p, k, die, N) == (25 * p * die * die) \div (N * N * k)

\* the stencil without its fourth neighbour
Stencil_ThreeNeighbours(below, above, right, left, source) ==
    (below + above + right + source) \div 4

\* 0.25 * (T[i+1, j] + T[i-1, j] + T[i, j+1] + T[i, j-1] + source)
Stencil(below, above, right, left, source) ==
    (below + above + right + left + source) \div 4

\* the update with its target row off by one
CellUpdate_RowAbove(T, P, K, die, N, i, j) ==
    [T EXCEPT ![<<i - 1, j>>] =
        Stencil(T[<<i + 1, j>>], T[<<i - 1, j>>],
                T[<<i, j + 1>>], T[<<i, j - 1>>],
                SourceTerm(P[<<i, j>>], K[<<i, j>>], die, N))]

\* the update with the heat of the cell one row above
CellUpdate_SourceAbove(T, P, K, die, N, i, j) ==
    [T EXCEPT ![<<i, j>>] =
        Stencil(T[<<i + 1, j>>], T[<<i - 1, j>>],
                T[<<i, j + 1>>], T[<<i, j - 1>>],
                SourceTerm(P[<<i - 1, j>>], K[<<i, j>>], die, N))]

\* the update without its source term
CellUpdate_NoSource(T, P, K, die, N, i, j) ==
    [T EXCEPT ![<<i, j>>] =
        Stencil(T[<<i + 1, j>>], T[<<i - 1, j>>],
                T[<<i, j + 1>>], T[<<i, j - 1>>], 0)]

\* the assignment to T[i, j]: it reads the array it writes
CellUpdate(T, P, K, die, N, i, j) ==
    [T EXCEPT ![<<i, j>>] =
        Stencil(T[<<i + 1, j>>], T[<<i - 1, j>>],
                T[<<i, j + 1>>], T[<<i, j - 1>>],
                SourceTerm(P[<<i, j>>], K[<<i, j>>], die, N))]

\* T[0, :] = T[-1, :] = T[:, 0] = T[:, -1] = ambient
PinEdges(T, N, ambient) ==
    [c \in Cells(N) |-> IF c \in Boundary(N) THEN ambient ELSE T[c]]

\* the loops nested the other way round: j outside, i inside
NextCell_ColumnMajor(N, i, j) ==
    IF i + 1 <= N - 2 THEN <<i + 1, j>>
    ELSE IF j + 1 <= N - 2 THEN <<1, j + 1>>
    ELSE <<0, 0>>

\* the cell the two nested range(1, N - 1) loops visit after (i, j);
\* <<0, 0>> when (i, j) was the last one
NextCell(N, i, j) ==
    IF j + 1 <= N - 2 THEN <<i, j + 1>>
    ELSE IF i + 1 <= N - 2 THEN <<i + 1, 1>>
    ELSE <<0, 0>>

\* the test with <= for <
ConvergenceTest_Leq(error, tolerance) == error <= tolerance

\* error < tolerance
ConvergenceTest(error, tolerance) == error < tolerance

(***************************************************************************)
(* YantraThermalSimulator.  frame[t] holds the locals of the call of       *)
(* solve_steady_state that thread t is in: pc is the statement it is at.   *)
(***************************************************************************)
Threads == {1, 2}

IdleFrame ==
    [pc |-> "idle", layout_type |-> "none", max_iter |-> 0, tolerance |-> 0,
     T |-> NoField, T_old |-> NoField, iteration |-> 0, i |-> 0, j |-> 0,
     error |-> 0, converged |-> FALSE, sweeps |-> 0]

EmpIdle ==
    [pc |-> "idle", power_map |-> NoField, k_map |-> NoField,
     num_iterations |-> 0, T |-> NoField, T_old |-> NoField,
     iteration |-> 0, converged |-> FALSE, sweeps |-> 0]

\* run_comparison before it is called: no metrics, no improvement figures
NoResults == <<>>

CmpIdle ==
    [pc |-> "idle", yantra_results |-> NoResults, rect_results |-> NoResults,
     yantra_T |-> NoField, yantra_power |-> NoField,
     rect_T |-> NoField, rect_power |-> NoField,
     improvement |-> NoResults, raised_at |-> "none"]

\* no helper called
ProbeIdle == [pc |-> "idle", fn |-> "none", x |-> 0, y |-> 0, result |-> 0]

\* YantraThermalSimulator.__init__
InitHotspot ==
    /\ program = "hotspot"
    /\ grid_size \in GridSizes
    /\ die_size_mm \in DieSizes
    /\ ambient_temp \in AmbientTemps
    /\ self_T = Full(grid_size, ambient_temp)
    /\ self_power = Full(grid_size, 0)
    /\ self_k_map = Full(grid_size, SILICON)
    /\ frame = [t \in Threads |-> IdleFrame]
    /\ emp = EmpIdle
    /\ cmp = CmpIdle
    /\ probe = ProbeIdle

\* solve_steady_state(layout_type, max_iter, tolerance) is entered
Call(t, layout_type, max_iter, tolerance) ==
    /\ program = "hotspot"
    /\ frame[t].pc \in {"idle", "done", "raised"}
    /\ frame[t].layout_type # "custom"
    /\ frame' = [frame EXCEPT ![t] =
                    [IdleFrame EXCEPT !.pc = "create_power",
                                      !.layout_type = layout_type,
                                      !.max_iter = max_iter,
                                      !.tolerance = tolerance]]
    /\ UNCHANGED <<sim_config, cmp, probe, self_T, self_power, self_k_map, emp>>

\* self.power = self._create_power_map(layout_type)
CreatePower(t) ==
    /\ frame[t].pc = "create_power"
    /\ self_power' = CreatePowerMap(frame[t].layout_type, grid_size)
    /\ frame' = [frame EXCEPT ![t].pc = "create_k"]
    /\ UNCHANGED <<sim_config, cmp, probe, self_T, self_k_map, emp>>

\* a map builder that marks its channels on the map of the last call
CreateK_OnLast(t) ==
    /\ frame[t].pc = "create_k"
    /\ IF KMapRaises(frame[t].layout_type, grid_size)
       THEN /\ frame' = [frame EXCEPT ![t].pc = "raised"]
            /\ UNCHANGED self_k_map
       ELSE /\ self_k_map' =
                 [c \in Cells(grid_size) |->
                     IF CreateKMap(frame[t].layout_type, grid_size)[c] = COPPER
                     THEN COPPER ELSE self_k_map[c]]
            /\ frame' = [frame EXCEPT ![t].pc = "init_T"]
    /\ UNCHANGED <<sim_config, cmp, probe, self_T, self_power, emp>>

\* self.k_map = self._create_thermal_conductivity_map(layout_type)
CreateK(t) ==
    /\ frame[t].pc = "create_k"
    /\ IF KMapRaises(frame[t].layout_type, grid_size)
       THEN /\ frame' = [frame EXCEPT ![t].pc = "raised"]
            /\ UNCHANGED self_k_map
       ELSE /\ self_k_map' = CreateKMap(frame[t].layout_type, grid_size)
            /\ frame' = [frame EXCEPT ![t].pc = "init_T"]
    /\ UNCHANGED <<sim_config, cmp, probe, self_T, self_power, emp>>

\* the initialisation that starts the interior a kelvin above ambient
InitT_Warm(t) ==
    /\ frame[t].pc = "init_T"
    /\ frame' = [frame EXCEPT
                    ![t].T = PinEdges(Full(grid_size, ambient_temp + 1000),
                                      grid_size, ambient_temp),
                    ![t].pc = "loop"]
    /\ UNCHANGED <<sim_config, cmp, probe, self_T, self_power, self_k_map, emp>>

\* the initialisation that starts from the field of the last solve
InitT_FromLast(t) ==
    /\ frame[t].pc = "init_T"
    /\ frame' = [frame EXCEPT
                    ![t].T = PinEdges(self_T, grid_size, ambient_temp),
                    ![t].pc = "loop"]
    /\ UNCHANGED <<sim_config, cmp, probe, self_T, self_power, self_k_map, emp>>

\* T = np.ones(...) * self.ambient_temp, and the four edge assignments
InitT(t) ==
    /\ frame[t].pc = "init_T"
    /\ frame' = [frame EXCEPT
                    ![t].T = PinEdges(Full(grid_size, ambient_temp),
                                      grid_size, ambient_temp),
                    ![t].pc = "loop"]
    /\ UNCHANGED <<sim_config, cmp, probe, self_T, self_power, self_k_map, emp>>

\* the loop with one iteration too many: range(max_iter + 1)
LoopHead_OneMore(t) ==
    /\ frame[t].pc = "loop"
    /\ IF frame[t].iteration <= frame[t].max_iter
       THEN frame' = [frame EXCEPT
                         ![t].T_old = frame[t].T,
                         ![t].i = 1,
                         ![t].j = 1,
                         ![t].pc = IF Interior(grid_size) # {}
                                   THEN "cell" ELSE "check"]
       ELSE frame' = [frame EXCEPT ![t].pc = "store"]
    /\ UNCHANGED <<sim_config, cmp, probe, self_T, self_power, self_k_map, emp>>

\* for iteration in range(max_iter): T_old = T.copy()
LoopHead(t) ==
    /\ frame[t].pc = "loop"
    /\ IF frame[t].iteration < frame[t].max_iter
       THEN frame' = [frame EXCEPT
                         ![t].T_old = frame[t].T,
                         ![t].i = 1,
                         ![t].j = 1,
                         ![t].pc = IF Interior(grid_size) # {}
                                   THEN "cell" ELSE "check"]
       ELSE frame' = [frame EXCEPT ![t].pc = "store"]
    /\ UNCHANGED <<sim_config, cmp, probe, self_T, self_power, self_k_map, emp>>

\* one pass of the body of the two nested loops
CellStep(t) ==
    /\ frame[t].pc = "cell"
    /\ LET f == frame[t]
           next == NextCell(grid_size, f.i, f.j)
       IN  frame' = [frame EXCEPT
                        ![t].T = CellUpdate(f.T, self_power, self_k_map,
                                            die_size_mm, grid_size, f.i, f.j),
                        ![t].i = next[1],
                        ![t].j = next[2],
                        ![t].pc = IF next = <<0, 0>> THEN "check" ELSE "cell"]
    /\ UNCHANGED <<sim_config, cmp, probe, self_T, self_power, self_k_map, emp>>

\* error = np.max(np.abs(T - T_old)); if error < tolerance: break
Check(t) ==
    /\ frame[t].pc = "check"
    /\ LET f == frame[t]
           error == MaxAbsDiff(f.T, f.T_old)
       IN  IF ConvergenceTest(error, f.tolerance)
           THEN frame' = [frame EXCEPT ![t].error = error,
                                       ![t].sweeps = f.sweeps + 1,
                                       ![t].converged = TRUE,
                                       ![t].pc = "store"]
           ELSE frame' = [frame EXCEPT ![t].error = error,
                                       ![t].sweeps = f.sweeps + 1,
                                       ![t].iteration = f.iteration + 1,
                                       ![t].pc = "loop"]
    /\ UNCHANGED <<sim_config, cmp, probe, self_T, self_power, self_k_map, emp>>

\* self.T = T; return T
Store(t) ==
    /\ frame[t].pc = "store"
    /\ self_T' = frame[t].T
    /\ frame' = [frame EXCEPT ![t].pc = "done"]
    /\ UNCHANGED <<sim_config, cmp, probe, self_power, self_k_map, emp>>

\* the statements of solve_steady_state after its entry
SolveStep(t) ==
    \/ CreatePower(t)
    \/ CreateK(t)
    \/ InitT(t)
    \/ LoopHead(t)
    \/ CellStep(t)
    \/ Check(t)
    \/ Store(t)

SolveCall(t) ==
    \E layout_type \in Layouts, max_iter \in IterCaps, tolerance \in Tolerances :
        Call(t, layout_type, max_iter, tolerance)

(***************************************************************************)
(* ThermalSimulator.solve_heat_equation.  Its update multiplies by 1/dx^2, *)
(* so its values leave every finite range within a few sweeps at the       *)
(* default die size.  A value beyond FloatMax in magnitude is NonFinite    *)
(* (an inf or a nan of the program); NonFinite absorbs every operation of  *)
(* the update, and no comparison with it is true.                          *)
(***************************************************************************)
NonFinite == FloatMax + 1

\* the only element of a one-element set
The(S) == CHOOSE r \in S : TRUE

Sat(x) == The({IF v > FloatMax \/ v < -FloatMax THEN NonFinite ELSE v : v \in {x}})

FAdd(a, b) ==
    The({IF x = NonFinite \/ y = NonFinite THEN NonFinite ELSE Sat(x + y) :
            x \in {a}, y \in {b}})

FSub(a, b) ==
    The({IF x = NonFinite \/ y = NonFinite THEN NonFinite ELSE Sat(x - y) :
            x \in {a}, y \in {b}})

FTwice(a) == The({IF x = NonFinite THEN NonFinite ELSE Sat(2 * x) : x \in {a}})

FQuarter(a) == The({IF x = NonFinite THEN NonFinite ELSE x \div 4 : x \in {a}})

RECURSIVE Gcd(_, _)
Gcd(a, b) == IF b = 0 THEN a ELSE Gcd(b, a % b)

\* a / dx**2 with dx = self.dx * 1e-3 and self.dx = die_size_mm / grid_size:
\* 1 / dx**2 is N^2 * 10^6 / die^2, taken in lowest terms
DivDx2(a, die, N) ==
    LET g == Gcd(N * N * 1000000, die * die)
        num == (N * N * 1000000) \div g
        den == (die * die) \div g
    IN  The({IF x = NonFinite \/ Abs(x) > FloatMax \div num
             THEN NonFinite
             ELSE (x * num) \div den : x \in {a}})

\* q / k_eff * 0.01 in mK, with q = power_map[i, j] * 1e6
EmpSourceTerm(p, k) == (p * 250000) \div k

\* the value assigned to T[i, j], from T_old alone
EmpCellValue(T_old, P, K, die, N, i, j) ==
    LET d2Tdx2 == DivDx2(FAdd(FSub(T_old[<<i + 1, j>>], FTwice(T_old[<<i, j>>])),
                              T_old[<<i - 1, j>>]), die, N)
        d2Tdy2 == DivDx2(FAdd(FSub(T_old[<<i, j + 1>>], FTwice(T_old[<<i, j>>])),
                              T_old[<<i, j - 1>>]), die, N)
    IN  FAdd(FAdd(T_old[<<i, j>>], FQuarter(FAdd(d2Tdx2, d2Tdy2))),
             EmpSourceTerm(P[<<i, j>>], K[<<i, j>>]))

\* the two nested loops over the interior, then the four edge assignments
EmpSweepField(T_old, P, K, die, N) ==
    PinEdges([c \in Cells(N) |->
                 IF c \in Interior(N)
                 THEN EmpCellValue(T_old, P, K, die, N, c[1], c[2])
                 ELSE T_old[c]],
             N, AMBIENT_TEMP)

\* np.max(np.abs(T - T_old)) < 0.1
EmpConverged(T, T_old) ==
    /\ \A c \in DOMAIN T : T[c] # NonFinite /\ T_old[c] # NonFinite
    /\ MaxAbsDiff(T, T_old) < EMP_TOLERANCE

\* the power_map and k_map arguments the model passes
EmpPowerMaps(N) == {Full(N, 0), Full(N, 20), HotCentre(N, 50)}

EmpKMaps(N) == {Full(N, SILICON), Striped(N)}

EmpIterCaps == (0..MaxEmpIter) \cup {CHECK_EVERY + 1, CHECK_EVERY + 2}

\* ThermalSimulator.__init__
InitEmp ==
    /\ program = "emp"
    /\ grid_size \in GridSizes
    /\ die_size_mm \in EmpDieSizes
    /\ ambient_temp = AMBIENT_TEMP
    /\ self_T = Full(grid_size, AMBIENT_TEMP)
    /\ self_power = NoField
    /\ self_k_map = NoField
    /\ frame = [t \in Threads |-> IdleFrame]
    /\ emp = EmpIdle
    /\ cmp = CmpIdle
    /\ probe = ProbeIdle

\* solve_heat_equation(power_map, k_map, num_iterations) is entered:
\* T = np.ones_like(self.T) * AMBIENT_TEMP
EmpCall(power_map, k_map, num_iterations) ==
    /\ program = "emp"
    /\ emp.pc \in {"idle", "done"}
    /\ emp' = [EmpIdle EXCEPT !.pc = "loop",
                              !.power_map = power_map,
                              !.k_map = k_map,
                              !.num_iterations = num_iterations,
                              !.T = Full(grid_size, AMBIENT_TEMP)]
    /\ UNCHANGED <<sim_config, cmp, probe, self_T, self_power, self_k_map, frame>>

\* one pass of the body of for iteration in range(num_iterations)
EmpSweep ==
    /\ emp.pc = "loop"
    /\ emp.iteration < emp.num_iterations
    /\ LET T_old == emp.T
           T == EmpSweepField(T_old, emp.power_map, emp.k_map,
                              die_size_mm, grid_size)
       IN  IF emp.iteration % CHECK_EVERY = 0 /\ EmpConverged(T, T_old)
           THEN emp' = [emp EXCEPT !.T = T, !.T_old = T_old,
                                   !.sweeps = emp.sweeps + 1,
                                   !.converged = TRUE,
                                   !.pc = "done"]
           ELSE emp' = [emp EXCEPT !.T = T, !.T_old = T_old,
                                   !.sweeps = emp.sweeps + 1,
                                   !.iteration = emp.iteration + 1]
    /\ UNCHANGED <<sim_config, cmp, probe, self_T, self_power, self_k_map, frame>>

\* the loop is exhausted: return T
EmpReturn ==
    /\ emp.pc = "loop"
    /\ emp.iteration >= emp.num_iterations
    /\ emp' = [emp EXCEPT !.pc = "done"]
    /\ UNCHANGED <<sim_config, cmp, probe, self_T, self_power, self_k_map, frame>>

EmpStep == EmpSweep \/ EmpReturn

EmpSolveCall ==
    \E power_map \in EmpPowerMaps(grid_size), k_map \in EmpKMaps(grid_size),
       num_iterations \in EmpIterCaps :
        EmpCall(power_map, k_map, num_iterations)

Init == InitHotspot \/ InitEmp

Next == SolveCall(1) \/ SolveStep(1) \/ EmpSolveCall \/ EmpStep

Spec == Init /\ [][Next]_vars
(***************************************************************************)
(* solve_steady_state as a function: the field, the terminal state and the *)
(* number of sweeps of a call that nothing else disturbs.                  *)
(***************************************************************************)
RECURSIVE SweepFrom(_, _, _, _, _, _, _)
SweepFrom(T, P, K, die, N, i, j) ==
    IF <<i, j>> = <<0, 0>> THEN T
    ELSE LET next == NextCell(N, i, j)
         IN  SweepFrom(CellUpdate(T, P, K, die, N, i, j), P, K, die, N,
                       next[1], next[2])

\* one execution of the two nested loops
GaussSeidelSweep(T, P, K, die, N) ==
    IF Interior(N) = {} THEN T ELSE SweepFrom(T, P, K, die, N, 1, 1)

RECURSIVE Iterate(_, _, _, _, _, _, _, _)
Iterate(T, P, K, die, N, iteration, max_iter, tolerance) ==
    IF iteration >= max_iter
    THEN [T |-> T, converged |-> FALSE, sweeps |-> iteration]
    ELSE LET T_new == GaussSeidelSweep(T, P, K, die, N)
         IN  IF ConvergenceTest(MaxAbsDiff(T_new, T), tolerance)
             THEN [T |-> T_new, converged |-> TRUE, sweeps |-> iteration + 1]
             ELSE Iterate(T_new, P, K, die, N, iteration + 1, max_iter,
                          tolerance)

SolveAlone(layout_type, N, die, ambient, max_iter, tolerance) ==
    Iterate(PinEdges(Full(N, ambient), N, ambient),
            CreatePowerMap(layout_type, N), CreateKMap(layout_type, N),
            die, N, 0, max_iter, tolerance)

(***************************************************************************)
(* KernelSpec: the loop of solve_steady_state (from the initialisation of  *)
(* T on) applied to power and conductivity maps that are inputs, beside    *)
(* everything Spec does.                                                   *)
(***************************************************************************)
KernelPowerMaps(N) ==
    {Full(N, 0), CreatePowerMap("yantra", N), HotCentre(N, 48)}

KernelKMaps(N) == {Full(N, SILICON), Striped(N)}

InitKernel ==
    /\ program = "hotspot"
    /\ grid_size \in GridSizes
    /\ die_size_mm \in DieSizes
    /\ ambient_temp \in AmbientTemps
    /\ self_T = Full(grid_size, ambient_temp)
    /\ self_power \in KernelPowerMaps(grid_size)
    /\ self_k_map \in KernelKMaps(grid_size)
    /\ \E max_iter \in IterCaps, tolerance \in Tolerances :
          frame = [t \in Threads |->
                      IF t = 1
                      THEN [IdleFrame EXCEPT !.pc = "init_T",
                                             !.layout_type = "custom",
                                             !.max_iter = max_iter,
                                             !.tolerance = tolerance]
                      ELSE IdleFrame]
    /\ emp = EmpIdle
    /\ cmp = CmpIdle
    /\ probe = ProbeIdle

KernelInit == InitKernel \/ InitHotspot \/ InitEmp

KernelSpec == KernelInit /\ [][Next]_vars

(***************************************************************************)
(* RaySpec: the loop of solve_steady_state, run until its convergence test *)
(* succeeds, on the power map _create_power_map builds when 'bindu' is the *)
(* only layer of POWER_DENSITY with a density other than zero, and on the  *)
(* conductivity map of the yantra layout.  The die is large enough for the *)
(* temperature rise to be thousands of mK.                                 *)
(***************************************************************************)
RayGridSizes == RayMinGrid..RayMaxGrid
RayDieSizes == {300}

\* power[i, j] = self._get_yantra_power(r), every layer but 'bindu' at zero
HotBinduPowerMap(N) ==
    [c \in Cells(N) |-> IF RadiusLeq(c[1], c[2], N, LAYER_RADII[1])
                        THEN POWER_DENSITY[1] ELSE 0]

RayInit ==
    /\ program = "hotspot"
    /\ grid_size \in RayGridSizes
    /\ die_size_mm \in RayDieSizes
    /\ ambient_temp = AMBIENT_TEMP
    /\ self_T = Full(grid_size, ambient_temp)
    /\ self_power = HotBinduPowerMap(grid_size)
    /\ self_k_map = CreateKMap("yantra", grid_size)
    /\ frame = [t \in Threads |->
                   IF t = 1
                   THEN [IdleFrame EXCEPT !.pc = "init_T",
                                          !.layout_type = "custom",
                                          !.max_iter = RayMaxIter,
                                          !.tolerance = 1]
                   ELSE IdleFrame]
    /\ emp = EmpIdle
    /\ cmp = CmpIdle
    /\ probe = ProbeIdle

RayNext == InitT(1) \/ LoopHead(1) \/ CellStep(1) \/ Check(1) \/ Store(1)

RaySpec == RayInit /\ [][RayNext]_vars

(***************************************************************************)
(* ParSpec: two threads on one YantraThermalSimulator, one in              *)
(* solve_steady_state('yantra'), the other in                              *)
(* solve_steady_state('rectangular'), their statements interleaved.        *)
(***************************************************************************)
ParLayout(t) == IF t = 1 THEN "yantra" ELSE "rectangular"

ParInit ==
    /\ program = "hotspot"
    /\ grid_size = ParGrid
    /\ die_size_mm \in DieSizes
    /\ ambient_temp = AMBIENT_TEMP
    /\ self_T = Full(grid_size, ambient_temp)
    /\ self_power = Full(grid_size, 0)
    /\ self_k_map = Full(grid_size, SILICON)
    /\ \E max_iter \in 1..ParMaxIter :
          frame = [t \in Threads |->
                      [IdleFrame EXCEPT !.pc = "create_power",
                                        !.layout_type = ParLayout(t),
                                        !.max_iter = max_iter,
                                        !.tolerance = 1]]
    /\ emp = EmpIdle
    /\ cmp = CmpIdle
    /\ probe = ProbeIdle

ParNext == \E t \in Threads : SolveStep(t)

ParSpec == ParInit /\ [][ParNext]_vars

(***************************************************************************)
(* MapSpec: solve_steady_state with its default tolerance and one sweep,   *)
(* on grids large enough for both layouts to have cooling channels.        *)
(***************************************************************************)
MapGridSizes == MinGrid..MapMaxGrid

MapInit ==
    /\ program = "hotspot"
    /\ grid_size \in MapGridSizes
    /\ die_size_mm \in DieSizes
    /\ ambient_temp = AMBIENT_TEMP
    /\ self_T = Full(grid_size, ambient_temp)
    /\ self_power = Full(grid_size, 0)
    /\ self_k_map = Full(grid_size, SILICON)
    /\ frame = [t \in Threads |-> IdleFrame]
    /\ emp = EmpIdle
    /\ cmp = CmpIdle
    /\ probe = ProbeIdle

MapCall == \E layout_type \in Layouts : Call(1, layout_type, 1, 1)

MapNext == MapCall \/ SolveStep(1)

MapSpec == MapInit /\ [][MapNext]_vars

(***************************************************************************)
(* The power map generators of ThermalSimulator, cell by cell.  A cell is  *)
(* given by its coordinates X and Y in hundredths of a mm; R = sqrt(X^2 +  *)
(* Y^2) is compared through its square.  Densities are in 1/40 W/mm^2      *)
(* (POWER_DENSITY_W_MM2 = 0.5 is 20).  A map starts at zero and each       *)
(* masked assignment overwrites the ones before it.                        *)
(***************************************************************************)
DIE_SIZE_MM == 20
YANTRA_RADII == <<165, 265, 398, 463, 603, 668, 769, 887>>

\* self.die_size * YANTRA_RADII[n] / 2, in hundredths of a mm
EmpLayerRadius(die, n) == (die * YANTRA_RADII[n]) \div 20

\* the value of the last assignment whose mask holds the cell; writes is the
\* sequence of <<mask, value>> in program order
RECURSIVE LastWrite(_, _, _)
LastWrite(writes, n, initial) ==
    IF n = 0 THEN initial
    ELSE IF writes[n][1] THEN writes[n][2]
    ELSE LastWrite(writes, n - 1, initial)

\* generate_power_map_yantra: bindu, L1/L2, L3, memory controller, HBM, I/O
EmpYantraPower(X, Y, die) ==
    LET R2 == X * X + Y * Y
        Sq(n) == EmpLayerRadius(die, n) * EmpLayerRadius(die, n)
        writes == <<
            <<R2 < Sq(1), 50>>,
            <<R2 >= Sq(1) /\ R2 < Sq(2), 20>>,
            <<R2 >= Sq(2) /\ R2 < Sq(3), 10>>,
            <<R2 >= Sq(3) /\ R2 < Sq(4), 12>>,
            <<R2 >= Sq(4) /\ R2 < Sq(5), 6>>,
            <<R2 >= Sq(5) /\ R2 < Sq(6), 3>> >>
    IN  LastWrite(writes, 6, 0)

\* np.abs(self.X - px) < w and np.abs(self.Y - py) < w, px, py, w in mm
InBlock(X, Y, px, py, w) ==
    Abs(X - 100 * px) < 100 * w /\ Abs(Y - 100 * py) < 100 * w

\* generate_power_map_rectangular: the central core, the four satellite
\* cores, the cache, the I/O ring.  When the cache mask is formed core_mask
\* is the mask of the last satellite core, the one at (5, 5).
EmpRectangularPower(X, Y, die) ==
    LET R2 == X * X + Y * Y
        core_mask == InBlock(X, Y, 5, 5, 2)
        cache_mask == InBlock(X, Y, 0, 0, 7) /\ ~ core_mask
        io_radius == die * 40
        writes == <<
            <<InBlock(X, Y, 0, 0, 3), 40>>,
            <<InBlock(X, Y, -5, -5, 2), 24>>,
            <<InBlock(X, Y, -5, 5, 2), 24>>,
            <<InBlock(X, Y, 5, -5, 2), 24>>,
            <<InBlock(X, Y, 5, 5, 2), 24>>,
            <<cache_mask, 8>>,
            <<R2 > io_radius * io_radius, 2>> >>
    IN  LastWrite(writes, 7, 0)

(***************************************************************************)
(* ProbeSpec: the helpers that compute one value of a map, called          *)
(* directly on a constructed simulator.  probe.x and probe.y are the       *)
(* arguments: the radius r in thousandths for _get_yantra_power, the       *)
(* indices (i, j) for _get_rectangular_power, the coordinates (X, Y) of    *)
(* the cell for the generators of ThermalSimulator.                        *)
(***************************************************************************)
ProbeRadii == 0..MaxProbeRadius

\* coordinates of a cell of a ThermalSimulator, in hundredths of a mm
ProbeCoords ==
    LET half == {0, 100, 140, 165, 200, 225, 265, 299, 300, 301, 398, 400,
                 463, 500, 600, 603, 668, 699, 700, 800, 900, 1000}
    IN  half \cup {-v : v \in half}

(***************************************************************************)
(* YantraChipLayout._generate_layers of the floorplan generator.  The      *)
(* normalized radii are in thousandths; a radius in mm is r * die_radius   *)
(* with die_radius = die_size_mm / 2, held here as r * die_size_mm, in     *)
(* units of half a micrometre.                                             *)
(***************************************************************************)
\* (r_inner, r_outer, power) of layer_specs, with one overlapping layer
layer_specs_Overlap ==
    << <<0, 165, 50>>, <<165, 265, 15>>, <<265, 398, 20>>, <<398, 463, 25>>,
       <<463, 603, 30>>, <<598, 668, 40>>, <<668, 769, 35>>, <<769, 887, 20>>,
       <<887, 1000, 5>> >>

\* (r_inner, r_outer, power) of layer_specs
layer_specs ==
    << <<0, 165, 50>>, <<165, 265, 15>>, <<265, 398, 20>>, <<398, 463, 25>>,
       <<463, 603, 30>>, <<603, 668, 40>>, <<668, 769, 35>>, <<769, 887, 20>>,
       <<887, 1000, 5>> >>

\* the list of ChipLayer that _generate_layers returns
GenerateLayers(die_size) ==
    [n \in 1..Len(layer_specs) |->
        [inner_radius_mm |-> layer_specs[n][1] * die_size,
         outer_radius_mm |-> layer_specs[n][2] * die_size,
         power_budget_w |-> layer_specs[n][3]]]

\* die_size_mm of a YantraChipLayout
FloorplanDieSizes == {10, 20, 25}

InitFloorplan ==
    /\ program = "floorplan"
    /\ grid_size = MinGrid
    /\ die_size_mm \in FloorplanDieSizes
    /\ ambient_temp = AMBIENT_TEMP
    /\ self_T = NoField
    /\ self_power = NoField
    /\ self_k_map = NoField
    /\ frame = [t \in Threads |-> IdleFrame]
    /\ emp = EmpIdle
    /\ cmp = CmpIdle
    /\ probe = ProbeIdle

(***************************************************************************)
(* The Vedic multipliers: vedic_2x2, vedic_4x4 and vedic_8x8 of            *)
(* vedic_multiplier_test.py, which combine partial products with + and *,  *)
(* and the functions of the same names nested in test_vedic_multiplier of  *)
(* brute_force_test.py (bf_ here), whose vedic_2x2 is built from & ^ |.    *)
(* Python's integers are unbounded; every value here is below 2^17.        *)
(***************************************************************************)
RECURSIVE BitAnd(_, _)
BitAnd(x, y) ==
    The({IF u = 0 \/ v = 0 THEN 0
         ELSE (u % 2) * (v % 2) + 2 * BitAnd(u \div 2, v \div 2) :
             u \in {x}, v \in {y}})

RECURSIVE BitOr(_, _)
BitOr(x, y) ==
    The({IF u = 0 THEN v
         ELSE IF v = 0 THEN u
         ELSE (IF (u % 2) + (v % 2) > 0 THEN 1 ELSE 0)
                  + 2 * BitOr(u \div 2, v \div 2) :
             u \in {x}, v \in {y}})

RECURSIVE BitXor(_, _)
BitXor(x, y) ==
    The({IF u = 0 THEN v
         ELSE IF v = 0 THEN u
         ELSE (((u % 2) + (v % 2)) % 2) + 2 * BitXor(u \div 2, v \div 2) :
             u \in {x}, v \in {y}})

\* x >> n and x << n
Shr(x, n) == x \div (2 ^ n)
Shl(x, n) == x * (2 ^ n)

\* the four partial products of a 2-bit multiplication, as * makes them
PartialProducts(a, b) ==
    {<<BitAnd(u, 1) * BitAnd(v, 1),
       BitAnd(Shr(u, 1), 1) * BitAnd(v, 1),
       BitAnd(u, 1) * BitAnd(Shr(v, 1), 1),
       BitAnd(Shr(u, 1), 1) * BitAnd(Shr(v, 1), 1)>> : u \in {a}, v \in {b}}

vedic_2x2(a, b) ==
    The({pp[1] + Shl(pp[2] + pp[3], 1) + Shl(pp[4], 2) :
            pp \in PartialProducts(a, b)})

\* the operand pairs of the four blocks of half the width w
Blocks(a, b, w) ==
    {<< <<BitAnd(u, 2 ^ w - 1), BitAnd(v, 2 ^ w - 1)>>,
        <<BitAnd(Shr(u, w), 2 ^ w - 1), BitAnd(v, 2 ^ w - 1)>>,
        <<BitAnd(u, 2 ^ w - 1), BitAnd(Shr(v, w), 2 ^ w - 1)>>,
        <<BitAnd(Shr(u, w), 2 ^ w - 1), BitAnd(Shr(v, w), 2 ^ w - 1)>> >> :
            u \in {a}, v \in {b}}

\* q0 + (q1 << w) + (q2 << w) + (q3 << 2w)
Combine(q, w) ==
    The({r[1] + Shl(r[2], w) + Shl(r[3], w) + Shl(r[4], 2 * w) : r \in {q}})

vedic_4x4(a, b) ==
    The({Combine([n \in 1..4 |-> vedic_2x2(blk[n][1], blk[n][2])], 2) :
            blk \in Blocks(a, b, 2)})

vedic_8x8(a, b) ==
    The({Combine([n \in 1..4 |-> vedic_4x4(blk[n][1], blk[n][2])], 4) :
            blk \in Blocks(a, b, 4)})

\* the four partial products of a 2-bit multiplication, as & makes them
PartialProductBits(a, b) ==
    {<<BitAnd(BitAnd(u, 1), BitAnd(v, 1)),
       BitAnd(BitAnd(Shr(u, 1), 1), BitAnd(v, 1)),
       BitAnd(BitAnd(u, 1), BitAnd(Shr(v, 1), 1)),
       BitAnd(BitAnd(Shr(u, 1), 1), BitAnd(Shr(v, 1), 1))>> :
           u \in {a}, v \in {b}}

\* the 2-bit multiplier without the carry of its middle column
bf_vedic_2x2_NoCarry(a, b) ==
    The({BitOr(BitOr(p[1], Shl(BitXor(p[2], p[3]), 1)), Shl(p[4], 2)) :
            p \in PartialProductBits(a, b)})

bf_vedic_2x2(a, b) ==
    The({LET s1 == BitXor(p[2], p[3])
             c1 == BitAnd(p[2], p[3])
             s2 == BitXor(p[4], c1)
         IN  BitOr(BitOr(BitOr(p[1], Shl(s1, 1)), Shl(s2, 2)),
                   Shl(BitAnd(p[4], c1), 3)) :
            p \in PartialProductBits(a, b)})

bf_vedic_4x4(a, b) ==
    The({Combine([n \in 1..4 |-> bf_vedic_2x2(blk[n][1], blk[n][2])], 2) :
            blk \in Blocks(a, b, 2)})

bf_vedic_8x8(a, b) ==
    The({Combine([n \in 1..4 |-> bf_vedic_4x4(blk[n][1], blk[n][2])], 4) :
            blk \in Blocks(a, b, 4)})

ProbeInit ==
    \/ MapInit
    \/ (InitEmp /\ die_size_mm = DIE_SIZE_MM)
    \/ InitFloorplan

ProbeValue(fn, x, y) ==
    CASE fn = "_get_yantra_power" -> GetYantraPower(x)
      [] fn = "_get_rectangular_power" -> RectangularPower(x, y, grid_size)
      [] fn = "generate_power_map_yantra" ->
            EmpYantraPower(x, y, die_size_mm)
      [] fn = "generate_power_map_rectangular" ->
            EmpRectangularPower(x, y, die_size_mm)
      [] fn = "_generate_layers" -> GenerateLayers(die_size_mm)
      [] fn = "vedic_2x2" -> vedic_2x2(x, y)
      [] fn = "vedic_4x4" -> vedic_4x4(x, y)
      [] fn = "vedic_8x8" -> vedic_8x8(x, y)
      [] fn = "bf_vedic_2x2" -> bf_vedic_2x2(x, y)
      [] fn = "bf_vedic_4x4" -> bf_vedic_4x4(x, y)
      [] fn = "bf_vedic_8x8" -> bf_vedic_8x8(x, y)

\* the helpers keep no state: one call per behaviour shows them all
ProbeCall(fn, x, y) ==
    /\ probe.pc = "idle"
    /\ probe' = [pc |-> "called", fn |-> fn, x |-> x, y |-> y, result |-> 0]
    /\ UNCHANGED <<sim_config, self_T, self_power, self_k_map, frame, emp, cmp>>

ProbeReturn ==
    /\ probe.pc = "called"
    /\ probe' = [probe EXCEPT !.result = ProbeValue(probe.fn, probe.x, probe.y),
                              !.pc = "returned"]
    /\ UNCHANGED <<sim_config, self_T, self_power, self_k_map, frame, emp, cmp>>

ProbeYantraPower ==
    /\ program = "hotspot"
    /\ \E r \in ProbeRadii : ProbeCall("_get_yantra_power", r, 0)

\* the value generate_power_map_yantra gives the cell with X = x, Y = y
ProbeEmpYantra ==
    /\ program = "emp"
    /\ \E x \in ProbeCoords, y \in ProbeCoords :
          ProbeCall("generate_power_map_yantra", x, y)

\* the value generate_power_map_rectangular gives the cell with X = x, Y = y
ProbeEmpRectangular ==
    /\ program = "emp"
    /\ \E x \in ProbeCoords, y \in ProbeCoords :
          ProbeCall("generate_power_map_rectangular", x, y)

ProbeRectangularPower ==
    /\ program = "hotspot"
    /\ \E c \in Cells(grid_size) :
          ProbeCall("_get_rectangular_power", c[1], c[2])

\* self.layers = self._generate_layers()
ProbeGenerateLayers ==
    /\ program = "floorplan"
    /\ ProbeCall("_generate_layers", 0, 0)

ProbeNext ==
    \/ ProbeGenerateLayers
    \/ ProbeYantraPower
    \/ ProbeRectangularPower
    \/ ProbeEmpYantra
    \/ ProbeEmpRectangular
    \/ ProbeReturn

ProbeSpec == ProbeInit /\ [][ProbeNext]_vars

(***************************************************************************)
(* analyze_results.  Temperatures and their statistics are in mK; the      *)
(* percentages are in hundredths of a percent.  The standard deviation is  *)
(* the square root of the population variance, which is computed exactly   *)
(* from the differences d = T - min as (n sum d^2 - (sum d)^2) / n^2.      *)
(***************************************************************************)
\* mask[5:-5, 5:-5] = True
InteriorMask_Margin4(N) ==
    {c \in Cells(N) : /\ 4 <= c[1] /\ c[1] <= N - 5
                      /\ 4 <= c[2] /\ c[2] <= N - 5}

InteriorMask(N) ==
    {c \in Cells(N) : /\ 5 <= c[1] /\ c[1] <= N - 6
                      /\ 5 <= c[2] /\ c[2] <= N - 6}

SetMin(S) == CHOOSE x \in S : \A y \in S : x <= y

RECURSIVE SumOver(_, _)
SumOver(S, f) ==
    IF S = {} THEN 0
    ELSE LET c == CHOOSE c \in S : TRUE
         IN  f[c] + SumOver(S \ {c}, f)

\* the integer part of the square root of v, which lies in lo .. hi - 1
RECURSIVE ISqrtIn(_, _, _)
ISqrtIn(v, lo, hi) ==
    IF hi - lo <= 1 THEN lo
    ELSE LET mid == (lo + hi) \div 2
         IN  IF mid * mid <= v THEN ISqrtIn(v, mid, hi)
                               ELSE ISqrtIn(v, lo, mid)

\* np.std(T_interior)
StdDev(T, mask, min_temp) ==
    LET n == Cardinality(mask)
        d == [c \in mask |-> T[c] - min_temp]
        sum == SumOver(mask, d)
        squares == SumOver(mask, [c \in mask |-> d[c] * d[c]])
    IN  ISqrtIn((n * squares - sum * sum) \div (n * n), 0, 46341)

\* np.sum(T_interior >= threshold)
HotspotCount_Geq(T, mask, min_temp, peak_temp) ==
    Cardinality({c \in mask :
                    10 * (T[c] - min_temp) >= 9 * (peak_temp - min_temp)})

\* threshold = min_temp + 0.9 * (peak_temp - min_temp);
\* np.sum(T_interior > threshold)
HotspotCount(T, mask, min_temp, peak_temp) ==
    Cardinality({c \in mask :
                    10 * (T[c] - min_temp) > 9 * (peak_temp - min_temp)})

\* np.max of an empty selection raises ValueError
AnalyzeRaises(N) == InteriorMask(N) = {}

\* the dictionary analyze_results returns
AnalyzeResults(T, N, layout_type) ==
    LET mask == InteriorMask(N)
        T_interior == {T[c] : c \in mask}
        peak_temp == SetMax(T_interior)
        min_temp == SetMin(T_interior)
        std_temp == StdDev(T, mask, min_temp)
    IN  [layout |-> layout_type,
         peak_temp_K |-> peak_temp,
         avg_temp_K |-> SumOver(mask, T) \div Cardinality(mask),
         min_temp_K |-> min_temp,
         std_dev_K |-> std_temp,
         hotspot_count |-> HotspotCount(T, mask, min_temp, peak_temp),
         temp_range_K |-> peak_temp - min_temp,
         uniformity_pct |->
             IF peak_temp > min_temp
             THEN 10000 - (std_temp * 10000) \div (peak_temp - min_temp)
             ELSE 10000]

(***************************************************************************)
(* run_comparison.  cmp.pc is the statement the call is at; the two calls  *)
(* of solve_steady_state it makes run in frame[1], with the iteration cap  *)
(* CmpMaxIter.  The die is large enough for the temperature differences of *)
(* a few sweeps to exceed the resolution of the model.                     *)
(***************************************************************************)
CmpGridSizes == CmpMinGrid..CmpMaxGrid
CmpDieSizes == {100}

CmpInit ==
    /\ program = "hotspot"
    /\ grid_size \in CmpGridSizes
    /\ die_size_mm \in CmpDieSizes
    /\ ambient_temp \in AmbientTemps
    /\ self_T = Full(grid_size, ambient_temp)
    /\ self_power = Full(grid_size, 0)
    /\ self_k_map = Full(grid_size, SILICON)
    /\ frame = [t \in Threads |-> IdleFrame]
    /\ emp = EmpIdle
    /\ cmp = CmpIdle
    /\ probe = ProbeIdle

\* the frame of a call self.solve_steady_state(layout_type) on entry
CmpSolveFrame(layout_type) ==
    [IdleFrame EXCEPT !.pc = "create_power",
                      !.layout_type = layout_type,
                      !.max_iter = CmpMaxIter,
                      !.tolerance = 1]

\* run_comparison is called: self.solve_steady_state('yantra')
RunComparison ==
    /\ program = "hotspot"
    /\ cmp.pc = "idle"
    /\ frame[1].pc = "idle"
    /\ cmp' = [cmp EXCEPT !.pc = "solve_yantra"]
    /\ frame' = [frame EXCEPT ![1] = CmpSolveFrame("yantra")]
    /\ UNCHANGED <<sim_config, probe, self_T, self_power, self_k_map, emp>>

\* the analysis and the copies in which the rectangular solve's arrays also
\* replace those kept for the yantra variant
CmpAnalyze_Aliased ==
    /\ cmp.pc \in {"solve_yantra", "solve_rect"}
    /\ frame[1].pc \in {"done", "raised"}
    /\ cmp' =
         IF frame[1].pc = "raised"
         THEN [cmp EXCEPT !.pc = "raised", !.raised_at = "solve_steady_state"]
         ELSE IF AnalyzeRaises(grid_size)
         THEN [cmp EXCEPT !.pc = "raised", !.raised_at = "analyze_results"]
         ELSE IF cmp.pc = "solve_yantra"
         THEN [cmp EXCEPT !.pc = "call_rect",
                          !.yantra_results =
                              AnalyzeResults(self_T, grid_size, "yantra"),
                          !.yantra_T = self_T,
                          !.yantra_power = self_power]
         ELSE [cmp EXCEPT !.pc = "improve",
                          !.rect_results =
                              AnalyzeResults(self_T, grid_size, "rectangular"),
                          !.rect_T = self_T,
                          !.rect_power = self_power,
                          !.yantra_T = self_T,
                          !.yantra_power = self_power]
    /\ UNCHANGED <<sim_config, probe, self_T, self_power, self_k_map, frame,
                   emp>>

\* the solve has returned: yantra_results = self.analyze_results('yantra'),
\* yantra_T = self.T.copy(), yantra_power = self.power.copy(); then the same
\* for the rectangular variant
CmpAnalyze ==
    /\ cmp.pc \in {"solve_yantra", "solve_rect"}
    /\ frame[1].pc \in {"done", "raised"}
    /\ cmp' =
         IF frame[1].pc = "raised"
         THEN [cmp EXCEPT !.pc = "raised", !.raised_at = "solve_steady_state"]
         ELSE IF AnalyzeRaises(grid_size)
         THEN [cmp EXCEPT !.pc = "raised", !.raised_at = "analyze_results"]
         ELSE IF cmp.pc = "solve_yantra"
         THEN [cmp EXCEPT !.pc = "call_rect",
                          !.yantra_results =
                              AnalyzeResults(self_T, grid_size, "yantra"),
                          !.yantra_T = self_T,
                          !.yantra_power = self_power]
         ELSE [cmp EXCEPT !.pc = "improve",
                          !.rect_results =
                              AnalyzeResults(self_T, grid_size, "rectangular"),
                          !.rect_T = self_T,
                          !.rect_power = self_power]
    /\ UNCHANGED <<sim_config, probe, self_T, self_power, self_k_map, frame,
                   emp>>

\* self.solve_steady_state('rectangular')
CmpSolveRect ==
    /\ cmp.pc = "call_rect"
    /\ cmp' = [cmp EXCEPT !.pc = "solve_rect"]
    /\ frame' = [frame EXCEPT ![1] = CmpSolveFrame("rectangular")]
    /\ UNCHANGED <<sim_config, probe, self_T, self_power, self_k_map, emp>>

\* num / den * 100, in hundredths of a percent
Pct(num, den) == (num * 10000) \div den

\* the improvements of run_comparison
Improvements(yantra_results, rect_results, ambient) ==
    [peak_reduction |->
         Pct(rect_results.peak_temp_K - yantra_results.peak_temp_K,
             rect_results.peak_temp_K - ambient),
     uniformity_improvement |->
         Pct(rect_results.std_dev_K - yantra_results.std_dev_K,
             rect_results.std_dev_K),
     hotspot_reduction |->
         Pct(rect_results.hotspot_count - yantra_results.hotspot_count,
             SetMax({1, rect_results.hotspot_count}))]

\* a float division by zero raises ZeroDivisionError
ImproveRaises(rect_results, ambient) ==
    \/ rect_results.peak_temp_K = ambient
    \/ rect_results.std_dev_K = 0

\* peak_reduction, uniformity_improvement, hotspot_reduction
CmpImprove ==
    /\ cmp.pc = "improve"
    /\ cmp' =
         IF ImproveRaises(cmp.rect_results, ambient_temp)
         THEN [cmp EXCEPT !.pc = "raised", !.raised_at = "run_comparison"]
         ELSE [cmp EXCEPT !.pc = "done",
                          !.improvement =
                              Improvements(cmp.yantra_results,
                                           cmp.rect_results, ambient_temp)]
    /\ UNCHANGED <<sim_config, probe, self_T, self_power, self_k_map, frame,
                   emp>>

CmpNext ==
    \/ RunComparison
    \/ SolveStep(1)
    \/ CmpAnalyze
    \/ CmpSolveRect
    \/ CmpImprove

CompareSpec == CmpInit /\ [][CmpNext]_vars

(***************************************************************************)
(* VedicSpec: one call of a multiplier on operands of its width, as the    *)
(* loops for a in range(256): for b in range(256) of the brute-force test  *)
(* and the cases of run_tests make them.                                   *)
(***************************************************************************)
\* for a in range(256)
VEDIC_OPERANDS == 256

VedicInit ==
    /\ program = "vedic"
    /\ grid_size = MinGrid
    /\ die_size_mm = DIE_SIZE_MM
    /\ ambient_temp = AMBIENT_TEMP
    /\ self_T = NoField
    /\ self_power = NoField
    /\ self_k_map = NoField
    /\ frame = [t \in Threads |-> IdleFrame]
    /\ emp = EmpIdle
    /\ cmp = CmpIdle
    /\ probe = ProbeIdle

\* the operands of a multiplier of the given width
VedicOperands(width) ==
    IF width = 8 THEN 0..(VEDIC_OPERANDS - 1) ELSE 0..(2 ^ width - 1)

VedicCall(fn, width) ==
    /\ program = "vedic"
    /\ probe.pc = "idle"
    /\ \E a \in VedicOperands(width), b \in VedicOperands(width) :
          ProbeCall(fn, a, b)

ProbeVedic ==
    \/ VedicCall("vedic_2x2", 2)
    \/ VedicCall("vedic_4x4", 4)
    \/ VedicCall("vedic_8x8", 8)

ProbeBruteForceVedic ==
    \/ VedicCall("bf_vedic_2x2", 2)
    \/ VedicCall("bf_vedic_4x4", 4)
    \/ VedicCall("bf_vedic_8x8", 8)

VedicNext == ProbeVedic \/ ProbeBruteForceVedic \/ ProbeReturn

VedicSpec == VedicInit /\ [][VedicNext]_vars

(***************************************************************************)
(* LabelSpec: solves of either layout and direct calls of analyze_results  *)
(* with either layout type, in any order on one simulator.  probe holds    *)
(* what the last call of analyze_results returned.                         *)
(***************************************************************************)
LabelInit == CmpInit /\ ambient_temp = AMBIENT_TEMP

\* analyze_results(layout_type), called between two solves
AnalyzeCall ==
    /\ program = "hotspot"
    /\ frame[1].pc \in {"idle", "done"}
    /\ \E layout_type \in Layouts :
          probe' = IF AnalyzeRaises(grid_size)
                   THEN [pc |-> "raised", fn |-> "analyze_results",
                         x |-> 0, y |-> 0, result |-> 0]
                   ELSE [pc |-> "returned", fn |-> "analyze_results",
                         x |-> 0, y |-> 0,
                         result |-> AnalyzeResults(self_T, grid_size,
                                                   layout_type)]
    /\ UNCHANGED <<sim_config, self_T, self_power, self_k_map, frame, emp, cmp>>

LabelNext == MapCall \/ SolveStep(1) \/ AnalyzeCall

LabelSpec == LabelInit /\ [][LabelNext]_vars

(***************************************************************************)
(* FairSpec: Spec in which a call that has been entered keeps executing.   *)
(***************************************************************************)
FairSpec == Spec /\ WF_vars(SolveStep(1)) /\ WF_vars(EmpStep)
(***************************************************************************)
(*                              The claims                                 *)
(***************************************************************************)
\* a call of solve_steady_state that has initialised its field T
HasField(f) == f.pc \in {"loop", "cell", "check", "store", "done"}

(***************************************************************************)
(* C1.  In solve_steady_state and in solve_heat_equation every cell of row *)
(* 0, row N-1, column 0 and column N-1 of the temperature field equals the *)
(* ambient temperature: in every state of a sweep, after every sweep, in   *)
(* the returned field and in the field stored in self.T, whatever the      *)
(* power and conductivity maps are.                                        *)
(***************************************************************************)
C1_BoundaryPinned ==
    /\ program = "hotspot" =>
          /\ \A c \in Boundary(grid_size) : self_T[c] = ambient_temp
          /\ HasField(frame[1]) =>
                \A c \in Boundary(grid_size) : frame[1].T[c] = ambient_temp
    /\ (program = "emp" /\ emp.pc \in {"loop", "done"}) =>
          \A c \in Boundary(grid_size) : emp.T[c] = AMBIENT_TEMP

\* a rectangular solve has returned after two sweeps that heated the interior
C1_Witness ==
    /\ frame[1].pc = "done"
    /\ frame[1].layout_type = "rectangular"
    /\ frame[1].sweeps >= 2
    /\ \E c \in Interior(grid_size) : frame[1].T[c] > ambient_temp
    /\ self_T = frame[1].T

(***************************************************************************)
(* C2.  One sweep of solve_steady_state is an in-place Gauss-Seidel sweep  *)
(* in row-major order.  At the end of a sweep every interior cell (i, j)   *)
(* holds 0.25 * (T_old[i+1,j] + T[i-1,j] + T_old[i,j+1] + T[i,j-1] +       *)
(* q dx^2 / k): the cells above and to the left with the value this sweep  *)
(* wrote, the cells below and to the right with the value of the previous  *)
(* sweep; every other cell is as the sweep found it.  Each step of the     *)
(* sweep writes the cell (i, j) alone and moves to its row-major           *)
(* successor, from (1, 1) to (N-2, N-2).                                   *)
(***************************************************************************)
RowMajorRank(N, i, j) == (i - 1) * (N - 2) + (j - 1)

C2_SweepResult ==
    frame[1].pc = "check" =>
        LET T == frame[1].T
            T_old == frame[1].T_old
        IN  \A c \in Cells(grid_size) :
                IF c \in Interior(grid_size)
                THEN T[c] = Stencil(T_old[<<c[1] + 1, c[2]>>],
                                    T[<<c[1] - 1, c[2]>>],
                                    T_old[<<c[1], c[2] + 1>>],
                                    T[<<c[1], c[2] - 1>>],
                                    SourceTerm(self_power[c], self_k_map[c],
                                               die_size_mm, grid_size))
                ELSE T[c] = T_old[c]

C2_SweepOrder ==
    LET f == frame[1]
        g == frame'[1]
    IN  /\ (f.pc = "loop" /\ g.pc = "cell") => <<g.i, g.j>> = <<1, 1>>
        /\ f.pc = "cell" =>
              /\ \A c \in Cells(grid_size) \ {<<f.i, f.j>>} : g.T[c] = f.T[c]
              /\ g.pc = "cell" =>
                    RowMajorRank(grid_size, g.i, g.j)
                        = RowMajorRank(grid_size, f.i, f.j) + 1
              /\ g.pc # "cell" =>
                    /\ g.pc = "check"
                    /\ <<f.i, f.j>> = <<grid_size - 2, grid_size - 2>>

C2_GaussSeidel == [] C2_SweepResult /\ [][C2_SweepOrder]_vars

\* a second sweep over a 3 x 3 interior has ended and changed the field
C2_Witness ==
    /\ frame[1].pc = "check"
    /\ grid_size = 5
    /\ frame[1].iteration = 1
    /\ frame[1].T # frame[1].T_old
    /\ frame[1].T_old # Full(grid_size, ambient_temp)
(***************************************************************************)
(* C3.  One sweep of solve_heat_equation sets every interior cell (i, j)   *)
(* to 0.25 * (the previous-sweep values of its four neighbours +           *)
(* q dx^2 / k), the Jacobi form of the update rule.                        *)
(***************************************************************************)
Finite(T) == \A c \in DOMAIN T : T[c] # NonFinite

C3_JacobiForm ==
    (program = "emp" /\ emp.sweeps > 0 /\ Finite(emp.T_old)) =>
        \A c \in Interior(grid_size) :
            emp.T[c] = Stencil(emp.T_old[<<c[1] + 1, c[2]>>],
                               emp.T_old[<<c[1] - 1, c[2]>>],
                               emp.T_old[<<c[1], c[2] + 1>>],
                               emp.T_old[<<c[1], c[2] - 1>>],
                               SourceTerm(emp.power_map[c], emp.k_map[c],
                                          die_size_mm, grid_size))

(***************************************************************************)
(* C4.  solve_steady_state stops at the first convergence check at which   *)
(* the largest absolute change of a cell over the sweep is below the       *)
(* tolerance.  A sweep is started only after checks that all failed; once  *)
(* a check succeeds the call is at its return with the field of that       *)
(* sweep; a call reported as converged has a last sweep whose largest      *)
(* change is below the tolerance, and a call that returns unconverged      *)
(* after a sweep has a last sweep whose largest change is not.  The same   *)
(* holds of solve_heat_equation for the checks it makes (every 100th       *)
(* iteration, against 0.1 K).                                              *)
(***************************************************************************)
C4_StopsAtFirstConvergence ==
    LET f == frame[1]
    IN  /\ (f.pc \in {"loop", "cell", "check"} /\ f.sweeps > 0) =>
              /\ ~ f.converged
              /\ f.error >= f.tolerance
        /\ (f.pc = "loop" /\ f.sweeps > 0) =>
              f.error = MaxAbsDiff(f.T, f.T_old)
        /\ f.converged =>
              /\ f.pc \in {"store", "done"}
              /\ f.sweeps = f.iteration + 1
              /\ f.error = MaxAbsDiff(f.T, f.T_old)
              /\ f.error < f.tolerance
        /\ (f.pc \in {"store", "done"} /\ ~ f.converged /\ f.sweeps > 0) =>
              MaxAbsDiff(f.T, f.T_old) >= f.tolerance
        /\ emp.converged =>
              /\ emp.pc = "done"
              /\ emp.sweeps = emp.iteration + 1
              /\ emp.iteration % CHECK_EVERY = 0
              /\ Finite(emp.T) /\ Finite(emp.T_old)
              /\ MaxAbsDiff(emp.T, emp.T_old) < EMP_TOLERANCE
        /\ (emp.pc = "loop" /\ emp.sweeps > 0
                /\ (emp.iteration - 1) % CHECK_EVERY = 0) =>
              ~ (/\ Finite(emp.T) /\ Finite(emp.T_old)
                 /\ MaxAbsDiff(emp.T, emp.T_old) < EMP_TOLERANCE)

\* a solve with the coarse tolerance has stopped after its second sweep,
\* which still changed the field
C4_Witness ==
    /\ frame[1].pc = "done"
    /\ frame[1].converged
    /\ frame[1].sweeps = 2
    /\ frame[1].max_iter = 3
    /\ frame[1].tolerance = 20
    /\ frame[1].error > 0

(***************************************************************************)
(* C5.  The solvers follow INITIALIZING -> ITERATING -> (CONVERGED |       *)
(* ITERATION_LIMIT_REACHED) and terminate.  A call never runs more than    *)
(* max_iter (num_iterations) sweeps; one that returns without a successful *)
(* convergence check has run exactly that many; every call that has        *)
(* reached the initialisation of its field returns.                        *)
(***************************************************************************)
Phase(f) ==
    CASE f.pc \in {"idle", "create_power", "create_k", "raised"} -> "NONE"
      [] f.pc = "init_T" -> "INITIALIZING"
      [] f.pc \in {"loop", "cell", "check"} -> "ITERATING"
      [] f.pc \in {"store", "done"} ->
            IF f.converged THEN "CONVERGED" ELSE "ITERATION_LIMIT_REACHED"

C5_SweepBound ==
    /\ frame[1].sweeps <= frame[1].max_iter
    /\ (frame[1].pc = "done" /\ ~ frame[1].converged) =>
          frame[1].sweeps = frame[1].max_iter
    /\ emp.sweeps <= emp.num_iterations
    /\ (emp.pc = "done" /\ ~ emp.converged) =>
          emp.sweeps = emp.num_iterations

C5_PhaseStep ==
    LET a == Phase(frame[1])
        b == Phase(frame'[1])
    IN  \/ a = b
        \/ a = "NONE" /\ b = "INITIALIZING"
        \/ a = "INITIALIZING" /\ b = "ITERATING"
        \/ a = "ITERATING" /\ b \in {"CONVERGED", "ITERATION_LIMIT_REACHED"}
        \/ a \in {"CONVERGED", "ITERATION_LIMIT_REACHED"} /\ b = "NONE"

C6_ReturnTellsTerminalState ==
    (program = "hotspot" /\ frame[1].pc = "done"
        /\ frame[1].layout_type \in Layouts) =>
        \A max_iter \in IterCaps, tolerance \in Tolerances :
            LET other == SolveAlone(frame[1].layout_type, grid_size,
                                    die_size_mm, ambient_temp,
                                    max_iter, tolerance)
            IN  other.T = frame[1].T =>
                    other.converged = frame[1].converged

(***************************************************************************)
(* C7.  With a power map that is zero in every cell and a positive         *)
(* conductivity map every cell of the field is at the ambient temperature  *)
(* in every state of the solve and in the returned and stored field.  The  *)
(* first convergence check succeeds when the tolerance is positive         *)
(* (C7_ZeroPowerStaysAmbient); the statement without that condition on the *)
(* tolerance is C7_FirstCheckSucceeds.                                     *)
(***************************************************************************)
ZeroPowerSolve ==
    /\ program = "hotspot"
    /\ frame[1].layout_type = "custom"
    /\ self_power = Full(grid_size, 0)
    /\ HasField(frame[1])

ZeroPowerEmpSolve ==
    /\ program = "emp"
    /\ emp.pc \in {"loop", "done"}
    /\ emp.power_map = Full(grid_size, 0)

C7_StaysAmbient ==
    /\ ZeroPowerSolve =>
          /\ frame[1].T = Full(grid_size, ambient_temp)
          /\ self_T = Full(grid_size, ambient_temp)
    /\ ZeroPowerEmpSolve => emp.T = Full(grid_size, AMBIENT_TEMP)

C7_ZeroPowerStaysAmbient ==
    /\ C7_StaysAmbient
    /\ (ZeroPowerSolve /\ frame[1].sweeps >= 1 /\ frame[1].tolerance > 0) =>
          frame[1].converged /\ frame[1].sweeps = 1
    /\ (ZeroPowerEmpSolve /\ emp.sweeps >= 1) =>
          emp.converged /\ emp.sweeps = 1

C7_FirstCheckSucceeds ==
    /\ C7_StaysAmbient
    /\ (ZeroPowerSolve /\ frame[1].sweeps >= 1) =>
          frame[1].converged /\ frame[1].sweeps = 1
    /\ (ZeroPowerEmpSolve /\ emp.sweeps >= 1) =>
          emp.converged /\ emp.sweeps = 1

\* a zero-power solve on the 5 x 5 grid with striped conductivity has
\* returned after its first check
C7_Witness ==
    /\ ZeroPowerSolve
    /\ grid_size = 5
    /\ self_k_map = Striped(grid_size)
    /\ frame[1].pc = "done"
    /\ frame[1].max_iter = 3
    /\ frame[1].tolerance = 1
    /\ frame[1].converged
    /\ frame[1].sweeps = 1

(***************************************************************************)
(* C8.  The in-place row-major sweep of solve_steady_state and a           *)
(* double-buffered Jacobi sweep of the same stencil, on the same power     *)
(* map, conductivity map, dx and boundary, have the same fixed points:     *)
(* the sweep just ended left its field T_old unchanged if and only if the  *)
(* Jacobi sweep leaves T_old unchanged.                                    *)
(***************************************************************************)
JacobiSweep(T, P, K, die, N) ==
    [c \in Cells(N) |->
        IF c \in Interior(N)
        THEN Stencil(T[<<c[1] + 1, c[2]>>], T[<<c[1] - 1, c[2]>>],
                     T[<<c[1], c[2] + 1>>], T[<<c[1], c[2] - 1>>],
                     SourceTerm(P[c], K[c], die, N))
        ELSE T[c]]

C8_SameFixedPoints ==
    (program = "hotspot" /\ frame[1].pc = "check") =>
        ((frame[1].T = frame[1].T_old)
            <=> (JacobiSweep(frame[1].T_old, self_power, self_k_map,
                             die_size_mm, grid_size) = frame[1].T_old))

\* a sweep with a heated interior cell has left its field unchanged
C8_Witness ==
    /\ frame[1].pc = "check"
    /\ Interior(grid_size) # {}
    /\ frame[1].T = frame[1].T_old
    /\ \E c \in Interior(grid_size) :
          self_power[c] > 0 /\ frame[1].T[c] > ambient_temp

(***************************************************************************)
(* C9.  Every solve_steady_state call starts from the field that is        *)
(* ambient in every cell, and the field it returns, its terminal state and *)
(* its number of sweeps are those of the call made alone with the same     *)
(* layout type, grid size, ambient temperature, max_iter and tolerance,    *)
(* whatever was solved on the simulator before.                            *)
(***************************************************************************)
C9_FreshField ==
    (program = "hotspot" /\ frame[1].layout_type \in Layouts) =>
        LET f == frame[1]
        IN  /\ (f.pc = "loop" /\ f.iteration = 0) =>
                  f.T = Full(grid_size, ambient_temp)
            /\ f.pc \in {"store", "done"} =>
                  LET alone == SolveAlone(f.layout_type, grid_size,
                                          die_size_mm, ambient_temp,
                                          f.max_iter, f.tolerance)
                  IN  /\ f.T = alone.T
                      /\ f.converged = alone.converged
                      /\ f.sweeps = alone.sweeps

\* a rectangular solve is about to return while self.T still holds the
\* field of an earlier yantra solve of three sweeps
C9_Witness ==
    /\ frame[1].pc = "store"
    /\ frame[1].layout_type = "rectangular"
    /\ frame[1].sweeps >= 2
    /\ self_T = SolveAlone("yantra", grid_size, die_size_mm, ambient_temp,
                           MaxIter, 0).T
    /\ self_T # Full(grid_size, ambient_temp)
    /\ self_T # frame[1].T

(***************************************************************************)
(* C10.  A 'yantra' solve and a 'rectangular' solve interleaved on one     *)
(* YantraThermalSimulator do not interact: at every cell update of a solve *)
(* self.power and self.k_map are the maps of that solve's layout, and the  *)
(* field a solve returns is the field it returns when run alone.           *)
(***************************************************************************)
C10_NoInteraction ==
    \A t \in Threads :
        LET f == frame[t]
        IN  /\ f.pc = "cell" =>
                  /\ self_power = CreatePowerMap(f.layout_type, grid_size)
                  /\ self_k_map = CreateKMap(f.layout_type, grid_size)
            /\ f.pc = "done" =>
                  f.T = SolveAlone(f.layout_type, grid_size, die_size_mm,
                                   ambient_temp, f.max_iter, f.tolerance).T

(***************************************************************************)
(* C11.  A grid resolution below 3 is rejected before any sweep of any     *)
(* variant runs: on a simulator whose grid_size is below 3 no solve        *)
(* initialises a temperature field and none returns one.                   *)
(***************************************************************************)
C11_SmallGridRejected ==
    grid_size < 3 =>
        /\ ~ HasField(frame[1])
        /\ emp.pc = "idle"

(***************************************************************************)
(* C12.  Whenever _create_thermal_conductivity_map has returned, for       *)
(* either layout, self.k_map is an N x N map whose every cell is 148       *)
(* (silicon) or 401 (copper), so the divisor k_eff of every cell update is *)
(* positive; and every index pair the yantra channel loops form lies       *)
(* inside the grid, so that no channel is marked outside it.               *)
(***************************************************************************)
KMapReturned(f) == f.pc \in {"init_T", "loop", "cell", "check", "store", "done"}

C12_ConductivityPositive ==
    (program = "hotspot" /\ KMapReturned(frame[1])
        /\ frame[1].layout_type \in Layouts) =>
        /\ DOMAIN self_k_map = Cells(grid_size)
        /\ \A c \in Cells(grid_size) :
              self_k_map[c] \in {SILICON, COPPER} /\ self_k_map[c] > 0
        /\ frame[1].pc = "cell" =>
              self_k_map[<<frame[1].i, frame[1].j>>] > 0
        /\ frame[1].layout_type = "yantra" =>
              /\ PrimaryTargets(grid_size) \subseteq Cells(grid_size)
              /\ SecondaryTargets(grid_size) \subseteq Cells(grid_size)
              /\ {c \in Cells(grid_size) : self_k_map[c] = COPPER}
                    = PrimaryTargets(grid_size) \cup SecondaryTargets(grid_size)

\* a yantra sweep on the 16 x 16 grid is about to update a copper cell
C12_Witness ==
    /\ frame[1].pc = "cell"
    /\ frame[1].layout_type = "yantra"
    /\ grid_size = 16
    /\ self_k_map[<<frame[1].i, frame[1].j>>] = COPPER
    /\ \E c \in Cells(grid_size) : self_k_map[c] = SILICON

(***************************************************************************)
(* C13.  _get_yantra_power(r) returns, for every radius r >= 0, the        *)
(* density of the first layer, in the order bindu, l1_cache, l2_cache,     *)
(* l3_cache, mem_ctrl, hbm_phy, io_ring, pdn, whose outer radius is >= r,  *)
(* and the 'boundary' density when r is greater than the pdn radius; the   *)
(* value returned is never negative.                                       *)
(***************************************************************************)
C13_FirstLayerAtOrBeyond ==
    (probe.pc = "returned" /\ probe.fn = "_get_yantra_power") =>
        LET r == probe.x
            reach == {n \in 1..8 : LAYER_RADII[n] >= r}
        IN  /\ probe.result >= 0
            /\ reach # {} =>
                  \E n \in reach :
                      /\ \A m \in reach : n <= m
                      /\ probe.result = POWER_DENSITY[n]
            /\ reach = {} =>
                  /\ r > LAYER_RADII[8]
                  /\ probe.result = POWER_DENSITY[9]

\* the call with r = 0.603, the outer radius of mem_ctrl, has returned the
\* density of mem_ctrl, which is larger than that of l3_cache inside it
C13_Witness ==
    /\ probe.pc = "returned"
    /\ probe.fn = "_get_yantra_power"
    /\ probe.x = 603
    /\ probe.result = 24

(***************************************************************************)
(* C14.  In both radial power-map generators a cell whose radius is        *)
(* exactly the outer radius of a layer gets the density of that layer, the *)
(* inner one, not the density of the next layer outward.                   *)
(***************************************************************************)
\* the densities generate_power_map_yantra assigns, innermost layer first
EmpLayerDensity == <<50, 20, 10, 12, 6, 3>>

C14_TieGoesInward ==
    /\ (probe.pc = "returned" /\ probe.fn = "_get_yantra_power") =>
          \A n \in 1..8 :
              probe.x = LAYER_RADII[n] => probe.result = POWER_DENSITY[n]
    /\ (probe.pc = "returned" /\ probe.fn = "generate_power_map_yantra") =>
          \A n \in 1..6 :
              probe.x * probe.x + probe.y * probe.y
                    = EmpLayerRadius(die_size_mm, n)
                        * EmpLayerRadius(die_size_mm, n)
                 => probe.result = EmpLayerDensity[n]

(***************************************************************************)
(* C15.  In both block power-map generators every cell inside a core       *)
(* rectangle has its core density in the returned map (the four cores of   *)
(* _get_rectangular_power; the central core and the four satellite cores   *)
(* of generate_power_map_rectangular), and every other cell has the cache  *)
(* density or the periphery density.                                       *)
(***************************************************************************)
\* the cell (i, j) lies in one of the four cores of _get_rectangular_power
InHotspotCore(i, j, N) ==
    LET half == N \div 2
        core_size == N \div 4
    IN  \E x \in {half - core_size, half + core_size \div 2} :
        \E y \in {half - core_size, half + core_size \div 2} :
            Abs(i - x) < core_size \div 2 /\ Abs(j - y) < core_size \div 2

C15_CoresKeepDensity ==
    /\ (probe.pc = "returned" /\ probe.fn = "_get_rectangular_power") =>
          IF InHotspotCore(probe.x, probe.y, grid_size)
          THEN probe.result = 48
          ELSE probe.result \in {20, 8}
    /\ (probe.pc = "returned"
            /\ probe.fn = "generate_power_map_rectangular") =>
          IF InBlock(probe.x, probe.y, 0, 0, 3)
          THEN probe.result = 40
          ELSE IF \E px \in {-5, 5} : \E py \in {-5, 5} :
                      InBlock(probe.x, probe.y, px, py, 2)
          THEN probe.result = 24
          ELSE probe.result \in {8, 2, 0}

(***************************************************************************)
(* C16.  For the rectangular layout and a grid size N >= 5, the cell       *)
(* (i, j) of the conductivity map is copper if and only if i mod (N // 5)  *)
(* is 0 or 1, or j mod (N // 5) is 0 or 1, and silicon otherwise: full     *)
(* rows and columns, two cells wide, every N // 5 cells from index 0.      *)
(***************************************************************************)
C16_GridChannels ==
    (program = "hotspot" /\ KMapReturned(frame[1])
        /\ frame[1].layout_type = "rectangular" /\ grid_size >= 5) =>
        LET step == grid_size \div 5
        IN  \A c \in Cells(grid_size) :
                IF \/ c[1] % step \in {0, 1}
                   \/ c[2] % step \in {0, 1}
                THEN self_k_map[c] = COPPER
                ELSE self_k_map[c] = SILICON

\* the rectangular map of the 16 x 16 grid, channels every 3 cells, has been
\* created: cell (2, 2) is silicon, cells (3, 2) and (4, 2) are copper
C16_Witness ==
    /\ frame[1].pc = "init_T"
    /\ frame[1].layout_type = "rectangular"
    /\ grid_size = 16
    /\ self_k_map[<<2, 2>>] = SILICON
    /\ self_k_map[<<3, 2>>] = COPPER
    /\ self_k_map[<<4, 2>>] = COPPER

(***************************************************************************)
(* C17.  For the yantra layout the conductivity map is marked along        *)
(* exactly 8 primary spoke angles, 45 degrees apart, and along exactly 16  *)
(* secondary spoke angles equally spaced around the full circle.           *)
(***************************************************************************)
\* the angles of S, n of them, are equally spaced around the circle
EquallySpaced(S, n) ==
    /\ Cardinality(S) = n
    /\ \A a \in S : 0 <= a /\ a < 360
    /\ n * (360 \div n) = 360
    /\ \A a \in S : ((a + 360 \div n) % 360) \in S

C17_SpokeAngles ==
    (program = "hotspot" /\ KMapReturned(frame[1])
        /\ frame[1].layout_type = "yantra") =>
        /\ EquallySpaced(PrimaryAngles, 8)
        /\ EquallySpaced(SecondaryAngles, 16)
        /\ \A a \in SecondaryAngles :
           \A r \in (grid_size \div 3)..(grid_size \div 2 - 2 - 1) :
              self_k_map[SpokePoint(grid_size, a, r)] = COPPER

\* C18: the metrics analyze_results returns are those of the cells whose two
\* indices both lie in 5 .. N-6: whatever the outermost five rows and columns
\* of the field hold, the returned dictionary is the same.
BorderValues == {ambient_temp - 100, ambient_temp + 1000}

Analyzed ==
    IF cmp.pc = "call_rect" THEN cmp.yantra_results
    ELSE IF cmp.pc = "improve" THEN cmp.rect_results
    ELSE NoResults

C18_BorderIgnored ==
    Analyzed # NoResults =>
        /\ Analyzed = AnalyzeResults(self_T, grid_size, Analyzed.layout)
        /\ \A c \in Cells(grid_size) :
               (c[1] < 5 \/ c[1] > grid_size - 6 \/
                c[2] < 5 \/ c[2] > grid_size - 6) =>
                   \A v \in BorderValues :
                       AnalyzeResults([self_T EXCEPT ![c] = v], grid_size,
                                      Analyzed.layout)
                           = Analyzed

C18_Witness ==
    /\ cmp.pc = "improve"
    /\ cmp.rect_results.temp_range_K > 0
    /\ \E c \in Cells(grid_size) :
           /\ c[1] = 4
           /\ self_T[c] > cmp.rect_results.peak_temp_K

\* C19: the hotspot_count analyze_results reports is the number of interior
\* cells strictly hotter than min + 0.9 * (max - min), min and max being those
\* of the interior of the analysed field; for a uniform interior (max = min)
\* the analysis returns, with a count of 0, and the only way it fails is the
\* empty selection of a grid with no interior.
AnalysedCells == (5..(grid_size - 6)) \X (5..(grid_size - 6))

InteriorMax == SetMax({self_T[c] : c \in AnalysedCells})

InteriorMin == SetMin({self_T[c] : c \in AnalysedCells})

C19_HotspotCount ==
    /\ Analyzed # NoResults =>
           /\ Analyzed.hotspot_count =
                  Cardinality({c \in AnalysedCells :
                      10 * self_T[c] > 10 * InteriorMin
                                         + 9 * (InteriorMax - InteriorMin)})
           /\ InteriorMax = InteriorMin =>
                  /\ Analyzed.hotspot_count = 0
                  /\ Analyzed.uniformity_pct = 10000
    /\ cmp.raised_at = "analyze_results" => AnalysedCells = {}

C19_Witness ==
    /\ cmp.pc = "call_rect"
    /\ InteriorMax > InteriorMin
    /\ cmp.yantra_results.hotspot_count >= 2
    /\ cmp.yantra_results.hotspot_count < Cardinality(AnalysedCells)

C19_UniformField ==
    /\ cmp.pc = "call_rect"
    /\ InteriorMax = InteriorMin
    /\ cmp.yantra_results.hotspot_count = 0

\* C20: each improvement percentage run_comparison reports (peak temperature,
\* standard deviation, hotspot count) equals (rect - yantra) / rect * 100 of
\* that metric of the two variants.
C20_RelativeToRect ==
    cmp.pc = "done" =>
        /\ cmp.improvement.peak_reduction =
               Pct(cmp.rect_results.peak_temp_K
                       - cmp.yantra_results.peak_temp_K,
                   cmp.rect_results.peak_temp_K)
        /\ cmp.improvement.uniformity_improvement =
               Pct(cmp.rect_results.std_dev_K - cmp.yantra_results.std_dev_K,
                   cmp.rect_results.std_dev_K)
        /\ cmp.rect_results.hotspot_count > 0 =>
               cmp.improvement.hotspot_reduction =
                   Pct(cmp.rect_results.hotspot_count
                           - cmp.yantra_results.hotspot_count,
                       cmp.rect_results.hotspot_count)

\* the two of the three percentages that are relative to the rectangular value
C20_StdAndCountRelativeToRect ==
    cmp.pc = "done" =>
        /\ cmp.improvement.uniformity_improvement =
               Pct(cmp.rect_results.std_dev_K - cmp.yantra_results.std_dev_K,
                   cmp.rect_results.std_dev_K)
        /\ cmp.rect_results.hotspot_count > 0 =>
               cmp.improvement.hotspot_reduction =
                   Pct(cmp.rect_results.hotspot_count
                           - cmp.yantra_results.hotspot_count,
                       cmp.rect_results.hotspot_count)

\* C21: when the rectangular baseline of an improvement percentage is 0 (the
\* peak's, the standard deviation's or the hotspot count's), run_comparison
\* reports that improvement as 0 and raises no exception.
C21_ZeroBaselineIsZeroPercent ==
    /\ cmp.raised_at # "run_comparison"
    /\ cmp.pc = "done" =>
           /\ cmp.rect_results.peak_temp_K = 0 =>
                  cmp.improvement.peak_reduction = 0
           /\ cmp.rect_results.std_dev_K = 0 =>
                  cmp.improvement.uniformity_improvement = 0
           /\ cmp.rect_results.hotspot_count = 0 =>
                  cmp.improvement.hotspot_reduction = 0

\* the zero baseline that run_comparison meets: a standard deviation of 0
C21_ZeroStdRaises ==
    (cmp.pc \in {"done", "raised"} /\ cmp.rect_results # NoResults
        /\ cmp.rect_results.std_dev_K = 0) =>
            cmp.raised_at = "run_comparison"

\* C22: the layer profile is well formed: the outer radii of LAYER_RADII, in
\* declaration order, are strictly increasing, lie in (0, 1] and end at 1.0;
\* every layer has a positive power density; in layer_specs the first inner
\* radius is 0 and each layer's inner radius is the previous layer's outer
\* radius, and so it is for the layers _generate_layers returns, which end at
\* the die radius.
C22_LayerProfileWellFormed ==
    /\ \A n \in 1..Len(LAYER_RADII) :
           /\ 0 < LAYER_RADII[n] /\ LAYER_RADII[n] <= 1000
           /\ n > 1 => LAYER_RADII[n - 1] < LAYER_RADII[n]
           /\ POWER_DENSITY[n] > 0
    /\ LAYER_RADII[Len(LAYER_RADII)] = 1000
    /\ Len(POWER_DENSITY) = Len(LAYER_RADII)
    /\ layer_specs[1][1] = 0
    /\ \A n \in 1..Len(layer_specs) :
           /\ layer_specs[n][1] < layer_specs[n][2]
           /\ layer_specs[n][2] = LAYER_RADII[n]
           /\ layer_specs[n][3] > 0
           /\ n > 1 => layer_specs[n][1] = layer_specs[n - 1][2]
    /\ (probe.pc = "returned" /\ probe.fn = "_generate_layers") =>
           LET layers == probe.result
           IN  /\ Len(layers) = Len(layer_specs)
               /\ layers[1].inner_radius_mm = 0
               /\ layers[Len(layers)].outer_radius_mm = 1000 * die_size_mm
               /\ \A n \in 2..Len(layers) :
                      layers[n].inner_radius_mm = layers[n - 1].outer_radius_mm

C22_Witness ==
    /\ probe.pc = "returned"
    /\ probe.fn = "_generate_layers"
    /\ die_size_mm = 20
    /\ probe.result[6].inner_radius_mm = 603 * 20

\* C23: the maps _create_power_map and _create_thermal_conductivity_map return
\* are determined by the layout type and the grid size alone: in every solve,
\* whatever solves came before it on the same simulator, the power map and
\* the conductivity map are those a fresh simulator builds for that layout.
MapsBuilt == {"init_T", "loop", "cell", "check", "store", "done"}

C23_MapsRepeat ==
    /\ frame[1].pc \in MapsBuilt \cup {"create_k"} =>
           self_power = CreatePowerMap(frame[1].layout_type, grid_size)
    /\ frame[1].pc \in MapsBuilt =>
           self_k_map = CreateKMap(frame[1].layout_type, grid_size)

\* a yantra solve that has rebuilt both maps on a simulator whose self.T is
\* still the field an earlier solve stored
C23_Witness ==
    /\ frame[1].pc = "init_T"
    /\ frame[1].layout_type = "yantra"
    /\ grid_size >= 14
    /\ self_T # Full(grid_size, ambient_temp)
    /\ self_power = CreatePowerMap("yantra", grid_size)
    /\ self_k_map # CreateKMap("rectangular", grid_size)
    /\ \E c \in Cells(grid_size) :
           /\ CreateKMap("rectangular", grid_size)[c] = COPPER
           /\ self_k_map[c] = SILICON

\* C24: with power in the innermost layer only (normalized radius <= 0.165),
\* the converged field of solve_steady_state has its maximum at the cell
\* nearest the grid centre, and the temperature never increases along a ray
\* of cells from the centre to the boundary: along the eight rays through
\* neighbouring cells, and along every row and column going away from the
\* centre's column and row.
RayDirections == {d \in (-1..1) \X (-1..1) : d # <<0, 0>>}

RayCell(N, d, n) == <<N \div 2 + n * d[1], N \div 2 + n * d[2]>>

Converged == frame[1].pc = "done" /\ frame[1].converged

C24_CentreHottestRaysFall ==
    Converged =>
        LET N == grid_size
            centre == <<N \div 2, N \div 2>>
        IN  /\ \A c \in Cells(N) : self_T[c] <= self_T[centre]
            /\ \A d \in RayDirections : \A n \in 0..N :
                   (RayCell(N, d, n) \in Cells(N)
                       /\ RayCell(N, d, n + 1) \in Cells(N)) =>
                       self_T[RayCell(N, d, n + 1)] <= self_T[RayCell(N, d, n)]
            /\ \A c \in Cells(N) :
                   /\ (c[1] >= centre[1] /\ c[1] + 1 < N) =>
                          self_T[<<c[1] + 1, c[2]>>] <= self_T[c]
                   /\ (c[1] <= centre[1] /\ c[1] >= 1) =>
                          self_T[<<c[1] - 1, c[2]>>] <= self_T[c]
                   /\ (c[2] >= centre[2] /\ c[2] + 1 < N) =>
                          self_T[<<c[1], c[2] + 1>>] <= self_T[c]
                   /\ (c[2] <= centre[2] /\ c[2] >= 1) =>
                          self_T[<<c[1], c[2] - 1>>] <= self_T[c]

\* a converged field that is hotter than ambient at the centre and falls by
\* more than a kelvin along a ray
C24_Witness ==
    /\ Converged
    /\ program = "hotspot"
    /\ self_power = HotBinduPowerMap(grid_size)
    /\ grid_size >= 7
    /\ self_T[RayCell(grid_size, <<1, 1>>, 0)]
           > self_T[RayCell(grid_size, <<1, 1>>, 2)] + 1000
    /\ self_T[RayCell(grid_size, <<1, 1>>, 2)] > ambient_temp

\* C25: for all a and b in 0..255 vedic_8x8(a, b) is a * b, in the arithmetic
\* implementation and in the one whose vedic_2x2 is built from XOR and AND;
\* the two vedic_2x2 agree on all 2-bit operands, and vedic_4x4 is the
\* product on all 4-bit operands.
VedicFns ==
    {"vedic_2x2", "vedic_4x4", "vedic_8x8",
     "bf_vedic_2x2", "bf_vedic_4x4", "bf_vedic_8x8"}

C25_VedicIsProduct ==
    /\ (probe.pc = "returned" /\ probe.fn \in VedicFns) =>
           probe.result = probe.x * probe.y
    /\ (probe.pc = "returned" /\ probe.fn = "vedic_2x2") =>
           probe.result = bf_vedic_2x2(probe.x, probe.y)
    /\ (probe.pc = "returned" /\ probe.fn = "bf_vedic_2x2") =>
           probe.result = vedic_2x2(probe.x, probe.y)

C25_Witness ==
    /\ probe.pc = "returned"
    /\ probe.fn = "bf_vedic_8x8"
    /\ probe.x = 255
    /\ probe.y = 255
    /\ probe.result = 65025

\* C26: with a power map that is nowhere negative and a conductivity map that
\* is positive everywhere, no cell of the temperature field of
\* solve_steady_state is below the ambient temperature: after every cell
\* update, and in the field that is returned and stored in self.T.
MapsAdmissible ==
    /\ \A c \in Cells(grid_size) : self_power[c] >= 0
    /\ \A c \in Cells(grid_size) : self_k_map[c] > 0

C26_NeverBelowAmbient ==
    (program = "hotspot" /\ MapsAdmissible) =>
        /\ \A c \in Cells(grid_size) : self_T[c] >= ambient_temp
        /\ HasField(frame[1]) =>
               \A c \in Cells(grid_size) : frame[1].T[c] >= ambient_temp

\* in the middle of a sweep that has heated a cell, over striped copper
C26_Witness ==
    /\ program = "hotspot"
    /\ MapsAdmissible
    /\ frame[1].pc = "cell"
    /\ frame[1].iteration >= 1
    /\ self_k_map = Striped(grid_size)
    /\ \E c \in Interior(grid_size) : frame[1].T[c] > ambient_temp

\* C27: from the all-ambient field, with a power map that is nowhere negative
\* and a conductivity map that is positive everywhere, the Gauss-Seidel
\* iteration of solve_steady_state is monotone: at the end of a sweep, and at
\* every point within it, every cell is at or above the value it had at the
\* end of the sweep before (T_old).
C27_SweepsRise ==
    (program = "hotspot" /\ MapsAdmissible
        /\ frame[1].pc \in {"cell", "check"}) =>
            \A c \in Cells(grid_size) : frame[1].T[c] >= frame[1].T_old[c]

\* the end of a third sweep in which a cell has risen again
C27_Witness ==
    /\ program = "hotspot"
    /\ MapsAdmissible
    /\ frame[1].pc = "check"
    /\ frame[1].iteration >= 2
    /\ \E c \in Interior(grid_size) :
           /\ frame[1].T_old[c] > ambient_temp
           /\ frame[1].T[c] > frame[1].T_old[c]

\* C28: in run_comparison what is kept of the yantra variant is not changed
\* by the rectangular solve that follows: the metrics and the arrays yantra_T
\* and yantra_power are those of the yantra solve, the metrics of the
\* rectangular variant and rect_T, rect_power those of the rectangular solve,
\* and when run_comparison is over self.T, self.power and self.k_map hold the
\* arrays of the rectangular variant.
VariantsAsSolved ==
    /\ cmp.pc = "call_rect" =>
           /\ frame[1].pc = "done" /\ frame[1].layout_type = "yantra"
           /\ cmp.yantra_T = frame[1].T
           /\ cmp.yantra_power = CreatePowerMap("yantra", grid_size)
           /\ cmp.yantra_results =
                  AnalyzeResults(frame[1].T, grid_size, "yantra")
    /\ cmp.pc \in {"improve", "done"} =>
           /\ frame[1].pc = "done" /\ frame[1].layout_type = "rectangular"
           /\ cmp.rect_T = frame[1].T
           /\ cmp.rect_power = CreatePowerMap("rectangular", grid_size)
           /\ cmp.rect_results =
                  AnalyzeResults(frame[1].T, grid_size, "rectangular")
           /\ self_T = cmp.rect_T
           /\ self_power = cmp.rect_power
           /\ self_k_map = CreateKMap("rectangular", grid_size)

YantraKept ==
    cmp.pc \in {"call_rect", "solve_rect", "improve"} =>
        /\ cmp'.yantra_T = cmp.yantra_T
        /\ cmp'.yantra_power = cmp.yantra_power
        /\ cmp'.yantra_results = cmp.yantra_results

C28_VariantsKeptApart == []VariantsAsSolved /\ [][YantraKept]_vars

\* run_comparison is over and the two variants' fields and metrics differ
C28_Witness ==
    /\ cmp.pc = "done"
    /\ cmp.yantra_T # cmp.rect_T
    /\ cmp.yantra_power # cmp.rect_power
    /\ cmp.yantra_results.peak_temp_K # cmp.rect_results.peak_temp_K
    /\ self_T = cmp.rect_T

\* C29: the 'layout' label of every record analyze_results returns names the
\* layout whose temperature field the statistics of the record were computed
\* from, that is the layout of the solve that stored self.T.
AnalyzeReturns ==
    /\ probe' # probe
    /\ probe'.pc = "returned"
    /\ probe'.fn = "analyze_results"

LabelNamesSolvedLayout ==
    (AnalyzeReturns /\ frame[1].pc = "done") =>
        probe'.result.layout = frame[1].layout_type

C29_LabelNamesField == [][LabelNamesSolvedLayout]_vars

\* the label is the argument of the call, whatever self.T holds
LabelIsArgument ==
    (probe.pc = "returned" /\ probe.fn = "analyze_results") =>
        probe.result.layout \in Layouts

C29_MislabelledRecord ==
    /\ probe.pc = "returned"
    /\ probe.fn = "analyze_results"
    /\ probe.result.layout = "rectangular"
    /\ frame[1].pc = "done"
    /\ frame[1].layout_type = "yantra"
    /\ probe.result.peak_temp_K > ambient_temp

\* C30: for every grid size N >= 3, analyze_results called after a solve has
\* at least one cell to analyse and returns its record of metrics without
\* raising.
C30_AnalysisReturns ==
    grid_size >= 3 =>
        /\ cmp.raised_at # "analyze_results"
        /\ cmp.pc \in {"solve_yantra", "solve_rect"} /\ frame[1].pc = "done" =>
               InteriorMask(grid_size) # {}

\* what holds instead: the analysis returns exactly on grids of 11 and more
C30_ReturnsFromEleven ==
    /\ cmp.raised_at = "analyze_results" <=>
           (grid_size <= 10 /\ cmp.pc = "raised")
    /\ cmp.pc \in {"call_rect", "improve", "done"} => grid_size >= 11
=============================================================================
